---- MODULE Spec2Model ----
(***************************************************************************)
(* A model of the resilience policies of gofw/httpx: the per-host circuit  *)
(* breaker (policy/circuitbreaker.go), the retry policy (policy/retry.go), *)
(* the bulkhead (policy/bulkhead.go), the error values of the package and  *)
(* Client.Do.                                                              *)
(***************************************************************************)
EXTENDS Integers, Sequences, FiniteSets, TLC

VARIABLES
    config,     \* CircuitBreakerPolicy.config, after NewCircuitBreakerPolicy
    breakers,   \* CircuitBreakerPolicy.breakers: host -> circuitBreaker
    now,        \* the clock read by time.Now()
    pc,         \* per caller: its position inside Client.Do / Execute
    host,       \* per caller: req.URL.Host of the call in progress
    ret,        \* per caller: the (resp, err) its last call returned
    invoked     \* per caller: how often its last call invoked next

cbVars == <<config, breakers, now, pc, host, ret, invoked>>

VARIABLES
    rconfig,    \* RetryPolicy.config, after NewRetryPolicy
    rreq,       \* the request given to RetryPolicy.Execute: method, Body
    origBody,   \* req.Body as the caller handed it over
    ctxDone,    \* whether the context given to Execute has been cancelled
    ctxErr,     \* ctx.Err() of that context
    rpc,        \* the position of RetryPolicy.Execute
    attempt,    \* the loop variable of Execute
    last,       \* lastResp, lastErr
    bodyBytes,  \* the request body preserved for the retries
    nextCalls,  \* how often Execute has invoked next
    inflight,   \* invocations of next that have not returned
    outcomes,   \* what next answered, per invocation
    presented,  \* req.Body as next found it, per invocation
    waits,      \* the arguments of Backoff.Next, per wait
    rret        \* what Execute returned

rVars == <<rconfig, rreq, origBody, ctxDone, ctxErr, rpc, attempt, last, bodyBytes,
           nextCalls, inflight, outcomes, presented, waits, rret>>

VARIABLES
    bconfig,    \* BulkheadPolicy.config, after NewBulkheadPolicy
    bulkheads,  \* BulkheadPolicy.bulkheads: host -> bulkhead
    global,     \* BulkheadPolicy.global
    bpc,        \* per caller: its position inside BulkheadPolicy.Execute
    bhost,      \* per caller: req.URL.Host of the call in progress
    bsel,       \* per caller: the bulkhead b its call has picked
    bret,       \* per caller: what its last call of Execute came to
    binvoked    \* per caller: how often its last call invoked next

bhVars == <<bconfig, bulkheads, global, bpc, bhost, bsel, bret, binvoked>>

VARIABLES
    tconfig,    \* TimeoutPolicy.config, after NewTimeoutPolicy
    tnow,       \* the clock read by context.WithTimeout
    tparent,    \* the deadline of the context given to TimeoutPolicy.Execute
    tstart,     \* the time at which Execute derived its context
    tctx,       \* the deadline of timeoutCtx, the context passed to next
    tpc,        \* the position of TimeoutPolicy.Execute
    tout,       \* what next returned to TimeoutPolicy.Execute
    tret        \* what TimeoutPolicy.Execute returned

toVars == <<tconfig, tnow, tparent, tstart, tctx, tpc, tout, tret>>

VARIABLES
    order,      \* where the timeout policy stands in a chain with the retry
                \* policy: "outside" or "inside" of it
    entered     \* how often TimeoutPolicy.Execute has been entered

trVars == <<order, entered>>

VARIABLES
    policies,   \* the policy list handed to Chain
    executor,   \* the executor Chain returned
    stack,      \* the Execute calls in progress, innermost last
    trace,      \* what one call of the executor has entered, in order
    cpc         \* the call of the executor: "idle", "running" or "done"

chVars == <<policies, executor, stack, trace, cpc>>

VARIABLES
    options,    \* the Options of the Request each caller handed to Client.Do
    observed    \* what the latest call of CircuitBreakerPolicy.State returned

clVars == <<options, observed>>

VARIABLES
    activeRequests, \* the gauge active_requests, by host label
    durations,      \* the label pairs (host, status) RecordRequestDuration saw
    retryAttempts,  \* the counter of retry attempts, by reason label
    mpc,            \* where each caller of MetricsPolicy.Execute is
    mhost,          \* the host label of each caller's call
    mout,           \* how next ended for each caller
    mret            \* what MetricsPolicy.Execute last returned to each caller

mVars == <<activeRequests, durations, retryAttempts, mpc, mhost, mout, mret>>

VARIABLES
    strategy,   \* the backoff strategy whose Next is called
    retryIndex, \* the retry index handed to Next
    platform,   \* what the build does with a float64 beyond the int64 range
    delayOut    \* what Next returned, Nil before the call

boVars == <<strategy, retryIndex, platform, delayOut>>

VARIABLES
    maxWorkers,  \* Pool.maxWorkers
    queueBuffer, \* the capacity of every task queue
    hash,        \* fnv1a.HashString64, by uid
    taskQueues,  \* the buffered tasks of every queue, oldest first
    qclosed,     \* which queues have been closed
    sendq,       \* the Submit calls parked on a full queue, oldest first
    poolCtx,     \* TRUE once p.cancel() has run
    worker,      \* where each worker goroutine is, and the task it runs
    wg,          \* the counter of p.wg
    sub,         \* where each caller of Submit is, with its task
    stopPc,      \* where the call of Stop is
    ntasks,      \* the number of tasks handed to Submit so far
    sent,        \* the tasks whose send completed, in order
    started,     \* the tasks that started to execute, in order
    finished     \* the tasks that finished executing

wpVars == <<maxWorkers, queueBuffer, hash, taskQueues, qclosed, sendq, poolCtx,
            worker, wg, sub, stopPc, ntasks, sent, started, finished>>

VARIABLES
    probe       \* per caller (history): its call was admitted after the most
                \* recent Open -> HalfOpen transition of its host's record

hoVars == <<probe>>

VARIABLES
    cancelled,  \* the contexts of TimeoutPolicy.Execute whose cancel has run
    bodyCtx     \* the context the request of the returned response carries

tcVars == <<cancelled, bodyCtx>>

VARIABLES
    ipc,        \* per caller: its position inside InstrumentationPolicy.Execute
    spans,      \* per caller: the spans its call in progress has started
    iout,       \* per caller: what next returned to Execute
    iret        \* per caller: what Execute returned

spVars == <<ipc, spans, iout, iret>>

\* the variables outside the circuit breaker's, the retry policy's, the
\* bulkhead's and the timeout policy's
outsideCB == <<rVars, bhVars, toVars, trVars, chVars, clVars, mVars, boVars, wpVars, hoVars, tcVars, spVars>>
outsideRetry == <<cbVars, bhVars, toVars, trVars, chVars, clVars, mVars, boVars, wpVars, hoVars, tcVars, spVars>>
outsideBH == <<cbVars, rVars, toVars, trVars, chVars, clVars, mVars, boVars, wpVars, hoVars, tcVars, spVars>>
outsideTimeout == <<cbVars, rVars, bhVars, trVars, chVars, clVars, mVars, boVars, wpVars, hoVars, tcVars, spVars>>
outsideTR == <<cbVars, rVars, bhVars, chVars, clVars, mVars, boVars, wpVars, hoVars, tcVars, spVars>>
outsideChain == <<cbVars, rVars, bhVars, toVars, trVars, clVars, mVars, boVars, wpVars, hoVars, tcVars, spVars>>
outsideClient == <<rVars, bhVars, toVars, trVars, chVars, mVars, boVars, wpVars, hoVars, tcVars, spVars>>
outsideMetrics == <<cbVars, rVars, bhVars, toVars, trVars, chVars, clVars, boVars, wpVars, hoVars, tcVars, spVars>>
outsideBackoff == <<cbVars, rVars, bhVars, toVars, trVars, chVars, clVars, mVars, wpVars, hoVars, tcVars, spVars>>
outsidePool == <<cbVars, rVars, bhVars, toVars, trVars, chVars, clVars, mVars, boVars, hoVars, tcVars, spVars>>
outsideProbe == <<rVars, bhVars, toVars, trVars, chVars, clVars, mVars, boVars, wpVars, tcVars, spVars>>
outsideContexts == <<cbVars, rVars, bhVars, trVars, chVars, clVars, mVars, boVars, wpVars, hoVars, spVars>>
outsideInstrumentation == <<cbVars, rVars, bhVars, toVars, trVars, chVars, clVars, mVars, boVars, wpVars, hoVars, tcVars>>

vars == <<cbVars, rVars, bhVars, toVars, trVars, chVars, clVars, mVars, boVars, wpVars, hoVars, tcVars, spVars>>

----------------------------------------------------------------------------
(* Bounds of the model *)

MaxTime == 5
MaxRequests == 4
MaxAttemptsBound == 3
MaxConcurrentBound == 2
MaxRequestTimeout == 2

Procs == {"p1", "p2"}
Hosts == {"a"}
BHProcs == {"q1", "q2", "q3"}
BHHosts == {"a", "b"}

----------------------------------------------------------------------------
(* Values: responses and errors *)

Nil == [kind |-> "nil"]

\* errors.New(msg) evaluated at an allocation site: a fresh *errorString
ErrorsNew(site, msg) == [kind |-> "errorString", id |-> site, msg |-> msg]

\* errors.Join(a, b): nil values are discarded; nil if nothing is left
ErrorsJoin(a, b) ==
    LET errs == SelectSeq(<<a, b>>, LAMBDA e : e # Nil)
    IN  IF Len(errs) = 0 THEN Nil ELSE [kind |-> "joinError", errs |-> errs]

ErrCircuitOpen == ErrorsNew("httpx.ErrCircuitOpen", "circuit breaker is open")
ErrBulkheadFull == ErrorsNew("httpx.ErrBulkheadFull", "bulkhead capacity exceeded")
ErrTimeout == ErrorsNew("httpx.ErrTimeout", "request timeout")
ErrMaxRetriesExceeded ==
    ErrorsNew("httpx.ErrMaxRetriesExceeded", "max retry attempts exceeded")

\* &RequestError{...}
RequestError(err, req, resp, retries, cause) ==
    [kind |-> "RequestError", Err |-> err, Request |-> req, Response |-> resp,
     Retries |-> retries, Cause |-> cause]

\* &url.Error{Err: err}: what the http transport wraps its failures in
UrlError(err) == [kind |-> "urlError", Err |-> err]

\* (*RequestError).Unwrap, (*url.Error).Unwrap
Unwrap(e) == e.Err

\* errors.Is(err, target): identity along the Unwrap chain / Unwrap tree
RECURSIVE ErrorsIs(_, _)
ErrorsIs(err, target) ==
    IF err = Nil THEN FALSE
    ELSE IF err = target THEN TRUE
    ELSE IF err.kind \in {"RequestError", "urlError"}
         THEN ErrorsIs(Unwrap(err), target)
    ELSE IF err.kind = "joinError"
         THEN \E i \in 1..Len(err.errs) : ErrorsIs(err.errs[i], target)
    ELSE FALSE

\* what the transport (the `next` of the innermost policy) can answer
NetErr == ErrorsNew("transport", "connection refused")
Response(status) == [kind |-> "response", status |-> status, closed |-> FALSE]
Result(resp, err) == [resp |-> resp, err |-> err]
NoResult == Result(Nil, Nil)

CBStatuses == {200, 503}
CBOutcomes == {Result(Nil, NetErr)} \cup {Result(Response(s), Nil) : s \in CBStatuses}

----------------------------------------------------------------------------
(* Circuit breaker: policy/circuitbreaker.go *)

StateClosed == 0
StateOpen == 1
StateHalfOpen == 2

DefaultErrorThreshold == 50
DefaultMinRequests == 10
DefaultSleepWindow == 5
DefaultSuccessThreshold == 2

\* NewCircuitBreakerPolicy: zero fields take the defaults
NewCircuitBreakerPolicy(c) ==
    [ErrorThreshold   |-> IF c.ErrorThreshold = 0 THEN DefaultErrorThreshold
                          ELSE c.ErrorThreshold,
     MinRequests      |-> IF c.MinRequests = 0 THEN DefaultMinRequests
                          ELSE c.MinRequests,
     SleepWindow      |-> IF c.SleepWindow = 0 THEN DefaultSleepWindow
                          ELSE c.SleepWindow,
     SuccessThreshold |-> IF c.SuccessThreshold = 0 THEN DefaultSuccessThreshold
                          ELSE c.SuccessThreshold]

\* the configurations the model draws from (time in clock ticks)
CBConfigs ==
    [ErrorThreshold : {0, 34}, MinRequests : {2, 3},
     SleepWindow : {1, 2}, SuccessThreshold : {0, 1}]

\* the record getBreakerForHost creates
NewBreaker(t) ==
    [state |-> StateClosed, failures |-> 0, successes |-> 0, requests |-> 0,
     lastStateChange |-> t]

\* CircuitBreakerPolicy.shouldTrip with config.ShouldTrip = nil
shouldTrip(r) ==
    IF r.err # Nil THEN TRUE
    ELSE IF r.resp # Nil /\ r.resp.status >= 500 THEN TRUE
    ELSE FALSE

\* a comparison written the wrong way round
SleepWindowPassedFlipped(b, cfg, t) == t - b.lastStateChange < cfg.SleepWindow

\* time.Since(b.lastStateChange) > b.config.SleepWindow
SleepWindowPassed(b, cfg, t) == t - b.lastStateChange > cfg.SleepWindow

\* canExecute that forgets to reset the request counter on Open -> HalfOpen
canExecuteNoReset(b, cfg, t) ==
    IF b.state = StateClosed THEN <<TRUE, b>>
    ELSE IF b.state = StateOpen THEN
        IF SleepWindowPassed(b, cfg, t)
        THEN <<TRUE, [b EXCEPT !.state = StateHalfOpen, !.successes = 0,
                               !.failures = 0, !.lastStateChange = t]>>
        ELSE <<FALSE, b>>
    ELSE IF b.state = StateHalfOpen THEN <<TRUE, b>>
    ELSE <<FALSE, b>>

\* circuitBreaker.canExecute: <<allowed, breaker after the call>>
canExecute(b, cfg, t) ==
    IF b.state = StateClosed THEN <<TRUE, b>>
    ELSE IF b.state = StateOpen THEN
        IF SleepWindowPassed(b, cfg, t)
        THEN <<TRUE, [b EXCEPT !.state = StateHalfOpen, !.successes = 0,
                               !.failures = 0, !.requests = 0,
                               !.lastStateChange = t]>>
        ELSE <<FALSE, b>>
    ELSE IF b.state = StateHalfOpen THEN <<TRUE, b>>
    ELSE <<FALSE, b>>

\* the trip condition without the MinRequests guard
TripConditionNoMin(b, cfg) ==
    (b.failures * 100) \div b.requests >= cfg.ErrorThreshold

\* the Closed case's condition to open the circuit
TripCondition(b, cfg) ==
    /\ b.requests >= cfg.MinRequests
    /\ (b.failures * 100) \div b.requests >= cfg.ErrorThreshold

\* handleFailure whose HalfOpen case forgets the transition timestamp
handleFailureNoStamp(b, cfg, t) ==
    IF b.state = StateClosed THEN
        IF TripCondition(b, cfg)
        THEN [b EXCEPT !.state = StateOpen, !.lastStateChange = t]
        ELSE b
    ELSE IF b.state = StateHalfOpen THEN
        [b EXCEPT !.state = StateOpen, !.successes = 0, !.failures = 0,
                  !.requests = 0]
    ELSE b

\* circuitBreaker.handleFailure
handleFailure(b, cfg, t) ==
    IF b.state = StateClosed THEN
        IF TripCondition(b, cfg)
        THEN [b EXCEPT !.state = StateOpen, !.lastStateChange = t]
        ELSE b
    ELSE IF b.state = StateHalfOpen THEN
        [b EXCEPT !.state = StateOpen, !.successes = 0, !.failures = 0,
                  !.requests = 0, !.lastStateChange = t]
    ELSE b

\* the close condition off by one
CloseConditionOffByOne(b, cfg) == b.successes > cfg.SuccessThreshold

\* the HalfOpen case's condition to close the circuit
CloseCondition(b, cfg) == b.successes >= cfg.SuccessThreshold

\* circuitBreaker.handleSuccess
handleSuccess(b, cfg, t) ==
    IF b.state = StateHalfOpen /\ CloseCondition(b, cfg)
    THEN [b EXCEPT !.state = StateClosed, !.successes = 0, !.failures = 0,
                   !.requests = 0, !.lastStateChange = t]
    ELSE b

\* a recordResult that counts a success without counting the request
recordResultUncounted(b, cfg, isFailure, t) ==
    IF isFailure
    THEN handleFailure([b EXCEPT !.requests = @ + 1, !.failures = @ + 1],
                       cfg, t)
    ELSE handleSuccess([b EXCEPT !.successes = @ + 1], cfg, t)

\* circuitBreaker.recordResult
recordResult(b, cfg, isFailure, t) ==
    LET b1 == [b EXCEPT !.requests = @ + 1]
    IN  IF isFailure
        THEN handleFailure([b1 EXCEPT !.failures = @ + 1], cfg, t)
        ELSE handleSuccess([b1 EXCEPT !.successes = @ + 1], cfg, t)

\* CircuitBreakerPolicy.State
State(h) == IF h \in DOMAIN breakers THEN breakers[h].state ELSE StateClosed

\* the error CircuitBreakerPolicy.Execute returns when canExecute refuses
CircuitOpenError == ErrorsNew("policy.CircuitBreakerPolicy.Execute", "circuit breaker is open")

\* the error http.NewRequest returns for a request that cannot be prepared
InvalidRequestError == ErrorsNew("http.NewRequest", "invalid request")

\* calls to host h that are between getBreakerForHost and recordResult
InFlight(h) == Cardinality({p \in Procs : pc[p] # "idle" /\ host[p] = h})

\* no retry policy call is in progress
RetryOff ==
    /\ rconfig = [MaxAttempts |-> 1, Backoff |-> Nil, OnlyIdempotent |-> FALSE,
                  RetryableStatusCodes |-> {}]
    /\ rreq = [method |-> "GET", body |-> Nil]
    /\ origBody = Nil
    /\ ctxDone = FALSE
    /\ ctxErr = Nil
    /\ rpc = "off"
    /\ attempt = 0
    /\ last = NoResult
    /\ bodyBytes = Nil
    /\ nextCalls = 0
    /\ inflight = 0
    /\ outcomes = <<>>
    /\ presented = <<>>
    /\ waits = <<>>
    /\ rret = NoResult

\* no bulkhead call is in progress
BulkheadOff ==
    /\ bconfig = [MaxConcurrent |-> 1, PerHost |-> FALSE]
    /\ bulkheads = <<>>
    /\ global = Nil
    /\ bpc = [p \in BHProcs |-> "off"]
    /\ bhost = [p \in BHProcs |-> ""]
    /\ bsel = [p \in BHProcs |-> ""]
    /\ bret = [p \in BHProcs |-> NoResult]
    /\ binvoked = [p \in BHProcs |-> 0]

\* a context without a deadline, and the deadline of one that has it
NoDeadline == [kind |-> "noDeadline"]
Deadline(t) == [kind |-> "deadline", at |-> t]

\* no timeout policy call is in progress
TimeoutOff ==
    /\ tconfig = [Request |-> 1]
    /\ tnow = 0
    /\ tparent = NoDeadline
    /\ tstart = 0
    /\ tctx = NoDeadline
    /\ tpc = "off"
    /\ tout = NoResult
    /\ tret = NoResult

\* the retry policy and the timeout policy are not chained
ChainedOff ==
    /\ order = "none"
    /\ entered = 0

\* no executor has been composed
ExecutorOff ==
    /\ policies = <<>>
    /\ executor = Nil
    /\ stack = <<>>
    /\ trace = <<>>
    /\ cpc = "off"

\* no request carries options and State has not been called
ClientOff ==
    /\ options = [p \in {"p1", "p2"} |-> <<>>]
    /\ observed = Nil

\* no metrics are collected
MetricsOff ==
    /\ activeRequests = <<>>
    /\ durations = {}
    /\ retryAttempts = <<>>
    /\ mpc = <<>>
    /\ mhost = <<>>
    /\ mout = <<>>
    /\ mret = <<>>

\* no backoff strategy is called on its own
BackoffOff ==
    /\ strategy = Nil
    /\ retryIndex = 0
    /\ platform = ""
    /\ delayOut = Nil

\* no worker pool exists
PoolOff ==
    /\ maxWorkers = 0
    /\ queueBuffer = 0
    /\ hash = <<>>
    /\ taskQueues = <<>>
    /\ qclosed = <<>>
    /\ sendq = <<>>
    /\ poolCtx = FALSE
    /\ worker = <<>>
    /\ wg = 0
    /\ sub = <<>>
    /\ stopPc = "off"
    /\ ntasks = 0
    /\ sent = <<>>
    /\ started = <<>>
    /\ finished = {}

\* no admission has been recorded
ProbeOff == probe = [p \in Procs |-> FALSE]

\* no context has been derived, no response returned
ContextsOff ==
    /\ cancelled = {}
    /\ bodyCtx = "none"

\* no instrumentation policy is in use
InstrumentationOff ==
    /\ ipc = <<>>
    /\ spans = <<>>
    /\ iout = <<>>
    /\ iret = <<>>

\* the policies of the later sections are not in use
ExtrasOff == TimeoutOff /\ ChainedOff /\ ExecutorOff /\ ClientOff /\ MetricsOff /\ BackoffOff /\ PoolOff /\ ProbeOff /\ ContextsOff /\ InstrumentationOff

InitCB ==
    /\ RetryOff
    /\ BulkheadOff
    /\ ExtrasOff
    /\ config \in {NewCircuitBreakerPolicy(c) : c \in CBConfigs}
    /\ breakers = <<>>
    /\ now = 0
    /\ pc = [p \in Procs |-> "idle"]
    /\ host = [p \in Procs |-> ""]
    /\ ret = [p \in Procs |-> NoResult]
    /\ invoked = [p \in Procs |-> 0]

\* Client.Do whose request cannot be converted: toHTTPRequest fails
ClientDoInvalid(p) ==
    /\ pc[p] = "idle"
    /\ ret' = [ret EXCEPT ![p] =
                 Result(Nil, RequestError(InvalidRequestError, Nil, Nil, 0,
                                          "invalid_request"))]
    /\ invoked' = [invoked EXCEPT ![p] = 0]
    /\ UNCHANGED <<config, breakers, now, pc, host>>
    /\ UNCHANGED outsideCB

\* Client.Do: the request is converted and handed to the executor, which is
\* CircuitBreakerPolicy.Execute around the transport
ClientDoExecutor(p, h) ==
    /\ pc[p] = "idle"
    /\ IF h \in DOMAIN breakers
       THEN breakers[h].requests + InFlight(h) < MaxRequests
       ELSE InFlight(h) < MaxRequests
    /\ pc' = [pc EXCEPT ![p] = "getBreaker"]
    /\ host' = [host EXCEPT ![p] = h]
    /\ ret' = [ret EXCEPT ![p] = NoResult]
    /\ invoked' = [invoked EXCEPT ![p] = 0]
    /\ UNCHANGED <<config, breakers, now>>

ClientDo(p, h) == ClientDoExecutor(p, h) /\ UNCHANGED outsideCB

\* CircuitBreakerPolicy.getBreakerForHost
getBreakerForHost(p) ==
    /\ pc[p] = "getBreaker"
    /\ breakers' = IF host[p] \in DOMAIN breakers THEN breakers
                   ELSE breakers @@ (host[p] :> NewBreaker(now))
    /\ pc' = [pc EXCEPT ![p] = "canExecute"]
    /\ UNCHANGED <<config, now, host, ret, invoked>>
    /\ UNCHANGED outsideCB

\* Execute: breaker.canExecute(), and the fail-fast return when it refuses
CanExecuteCall(p) ==
    /\ pc[p] = "canExecute"
    /\ LET r == canExecute(breakers[host[p]], config, now)
       IN  /\ breakers' = [breakers EXCEPT ![host[p]] = r[2]]
           /\ IF r[1]
              THEN /\ pc' = [pc EXCEPT ![p] = "next"]
                   /\ invoked' = [invoked EXCEPT ![p] = @ + 1]
                   /\ UNCHANGED <<host, ret>>
              ELSE /\ pc' = [pc EXCEPT ![p] = "idle"]
                   /\ host' = [host EXCEPT ![p] = ""]
                   /\ ret' = [ret EXCEPT ![p] = Result(Nil, CircuitOpenError)]
                   /\ UNCHANGED invoked
    /\ UNCHANGED <<config, now>>

CanExecute(p) == CanExecuteCall(p) /\ UNCHANGED outsideCB

\* an Execute that records the result in the record of every host
NextReturnsEveryHost(p, o) ==
    /\ pc[p] = "next"
    /\ breakers' = [h \in DOMAIN breakers |->
                      recordResult(breakers[h], config, shouldTrip(o), now)]
    /\ pc' = [pc EXCEPT ![p] = "idle"]
    /\ host' = [host EXCEPT ![p] = ""]
    /\ ret' = [ret EXCEPT ![p] = o]
    /\ UNCHANGED <<config, now, invoked>>
    /\ UNCHANGED outsideCB

\* Execute: next returns o, the result is recorded and returned as it is
NextReturns(p, o) ==
    /\ pc[p] = "next"
    /\ breakers' = [breakers EXCEPT ![host[p]] =
                      recordResult(@, config, shouldTrip(o), now)]
    /\ pc' = [pc EXCEPT ![p] = "idle"]
    /\ host' = [host EXCEPT ![p] = ""]
    /\ ret' = [ret EXCEPT ![p] = o]
    /\ UNCHANGED <<config, now, invoked>>
    /\ UNCHANGED outsideCB

\* time passes
Tick ==
    /\ now < MaxTime
    /\ now' = now + 1
    /\ UNCHANGED <<config, breakers, pc, host, ret, invoked>>
    /\ UNCHANGED outsideCB

NextCB ==
    \/ \E p \in Procs : ClientDoInvalid(p)
    \/ \E p \in Procs, h \in Hosts : ClientDo(p, h)
    \/ \E p \in Procs : getBreakerForHost(p)
    \/ \E p \in Procs : CanExecute(p)
    \/ \E p \in Procs, o \in CBOutcomes : NextReturns(p, o)
    \/ Tick

SpecCB == InitCB /\ [][NextCB]_vars

----------------------------------------------------------------------------
(* Retry policy: policy/retry.go *)

DefaultMaxAttempts == 3
DefaultRetryableStatusCodes == {429, 500, 502, 503, 504}

\* backoff.NewConstantBackoff(interval); durations are in milliseconds
NewConstantBackoff(interval) ==
    [kind |-> "ConstantBackoff", Interval |-> interval]

\* backoff.NewExponentialBackoff()
NewExponentialBackoff ==
    [kind |-> "ExponentialBackoff", Initial |-> 100, Max |-> 30000,
     Factor |-> 2, Jitter |-> TRUE]

\* Backoff.Next(retry): the delays it can return (one, unless jitter draws
\* rand.Float64() * delay, which is below delay)
BackoffNext(b, retry) ==
    IF b.kind = "ConstantBackoff" THEN {b.Interval}
    ELSE LET factor == IF b.Factor = 0 THEN 2 ELSE b.Factor
             delay  == b.Initial * factor ^ retry
             capped == IF b.Max > 0 /\ delay > b.Max THEN b.Max ELSE delay
         IN  IF b.Jitter
             THEN (IF capped > 0 THEN 0..(capped - 1) ELSE {0})
             ELSE {capped}

\* NewRetryPolicy: MaxAttempts 0, Backoff nil and RetryableStatusCodes nil
\* take the defaults; OnlyIdempotent is kept as given
NewRetryPolicy(c) ==
    [MaxAttempts |-> IF c.MaxAttempts = 0 THEN DefaultMaxAttempts
                     ELSE c.MaxAttempts,
     Backoff |-> IF c.Backoff = Nil THEN NewExponentialBackoff ELSE c.Backoff,
     OnlyIdempotent |-> c.OnlyIdempotent,
     RetryableStatusCodes |-> IF c.RetryableStatusCodes = Nil
                              THEN DefaultRetryableStatusCodes
                              ELSE c.RetryableStatusCodes]

\* the configurations the model draws from
RetryConfigs ==
    [MaxAttempts : -1..MaxAttemptsBound,
     Backoff : {Nil, NewConstantBackoff(0), NewConstantBackoff(1)},
     OnlyIdempotent : BOOLEAN,
     RetryableStatusCodes : {Nil}]

Methods == {"GET", "PUT", "DELETE", "HEAD", "OPTIONS", "TRACE", "POST", "PATCH"}

\* isIdempotent with PATCH taken for idempotent
isIdempotentWithPatch(method) ==
    method \in {"GET", "PUT", "DELETE", "HEAD", "OPTIONS", "TRACE", "PATCH"}

\* isIdempotent
isIdempotent(method) ==
    method \in {"GET", "PUT", "DELETE", "HEAD", "OPTIONS", "TRACE"}

\* shouldRetry that also retries every client error status
shouldRetryClientErrors(cfg, r) ==
    IF r.err # Nil THEN TRUE
    ELSE IF r.resp # Nil /\ (r.resp.status \in cfg.RetryableStatusCodes
                             \/ r.resp.status >= 400) THEN TRUE
    ELSE FALSE

\* RetryPolicy.shouldRetry with config.ShouldRetry = nil
shouldRetry(cfg, r) ==
    IF r.err # Nil THEN TRUE
    ELSE IF r.resp # Nil /\ r.resp.status \in cfg.RetryableStatusCodes THEN TRUE
    ELSE FALSE

\* a request body: a reader over data, read up to pos; or one whose Read fails
Reader(data, pos) == [kind |-> "reader", data |-> data, pos |-> pos]
FailingReader == [kind |-> "failingReader"]
ReadErr == ErrorsNew("io.Reader", "read failed")
Bodies == {<<>>, <<1, 2>>}

\* io.ReadAll(req.Body): what is left of the body
ReadAll(body) == SubSeq(body.data, body.pos + 1, Len(body.data))

RetryStatuses == {200, 404, 429, 503}
\* what next can answer: a transport error, the error of a circuit breaker
\* further down the chain that is open, or a response
RetryOutcomes ==
    {Result(Nil, NetErr), Result(Nil, CircuitOpenError)}
        \cup {Result(Response(s), Nil) : s \in RetryStatuses}

\* ctx.Err() of a cancelled context
CtxCanceled == ErrorsNew("context.Canceled", "context canceled")

\* the error of the return after the loop
ExhaustedError(lastErr) ==
    ErrorsJoin(lastErr,
               ErrorsNew("policy.RetryPolicy.Execute", "max retry attempts exceeded"))

\* io.Copy(io.Discard, lastResp.Body); lastResp.Body.Close()
DrainAndClose(r) ==
    IF r.resp # Nil THEN [r EXCEPT !.resp.closed = TRUE] ELSE r

\* the head of the loop without the restoring of the body
RestoreBodyNever(bytes, body) == body

\* req.Body at the head of the loop: a new reader over the preserved bytes
RestoreBody(bytes, body) ==
    IF bytes # Nil THEN Reader(bytes.data, 0) ELSE body

\* whether the channel of time.After(delay) can be ready on arrival at the
\* select: never for a positive delay
TimerReadyAtOnce(delay) == IF delay <= 0 THEN BOOLEAN ELSE {FALSE}

\* the wait as time.Sleep(delay): the context is not looked at
SelectSleepOnly(ctxReady, timerReady) ==
    IF timerReady THEN {"timer"} ELSE {}

\* the select of the wait: the cases it can take given which channels are
\* ready (any ready one); none when it has to park
SelectWait(ctxReady, timerReady) ==
    (IF ctxReady THEN {"ctx"} ELSE {}) \cup (IF timerReady THEN {"timer"} ELSE {})

\* the loop condition of Execute, one attempt too many
LoopContinuesOffByOne(a, cfg) == a <= cfg.MaxAttempts

\* the loop condition of Execute
LoopContinues(a, cfg) == a < cfg.MaxAttempts

InitRetry ==
    /\ config = NewCircuitBreakerPolicy(CHOOSE c \in CBConfigs : TRUE)
    /\ breakers = <<>>
    /\ now = 0
    /\ pc = [p \in Procs |-> "idle"]
    /\ host = [p \in Procs |-> ""]
    /\ ret = [p \in Procs |-> NoResult]
    /\ invoked = [p \in Procs |-> 0]
    /\ BulkheadOff
    /\ ExtrasOff
    /\ rconfig \in {NewRetryPolicy(c) : c \in RetryConfigs}
    /\ rreq \in [method : Methods,
                 body : {Nil, FailingReader} \cup {Reader(d, 0) : d \in Bodies}]
    /\ origBody = rreq.body
    /\ ctxDone = FALSE
    /\ ctxErr = Nil
    /\ rpc = "idle"
    /\ attempt = 0
    /\ last = NoResult
    /\ bodyBytes = Nil
    /\ nextCalls = 0
    /\ inflight = 0
    /\ outcomes = <<>>
    /\ presented = <<>>
    /\ waits = <<>>
    /\ rret = NoResult

\* what next can leave of a request body: it reads any part of the rest
Consumed(body) ==
    IF body # Nil /\ body.kind = "reader"
    THEN {Reader(body.data, k) : k \in body.pos..Len(body.data)}
    ELSE {body}

\* the head of the loop with attempt = a, bytes the preserved body, r the
\* last result, body the current req.Body and fl the invocations of next in
\* flight: either the body is restored and next is invoked, or the loop is
\* left and Execute returns
LoopHead(a, bytes, r, body, fl) ==
    /\ attempt' = a
    /\ IF LoopContinues(a, rconfig)
       THEN /\ rpc' = "next"
            /\ rreq' = [rreq EXCEPT !.body = RestoreBody(bytes, body)]
            /\ nextCalls' = nextCalls + 1
            /\ inflight' = fl + 1
            /\ presented' = Append(presented, rreq'.body)
            /\ UNCHANGED rret
       ELSE /\ rpc' = "done"
            /\ rreq' = [rreq EXCEPT !.body = body]
            /\ rret' = Result(r.resp, ExhaustedError(r.err))
            /\ inflight' = fl
            /\ UNCHANGED <<nextCalls, presented>>

\* Execute up to its first invocation of next, or its return before that
RetryExecute ==
    /\ rpc = "idle"
    /\ IF rconfig.OnlyIdempotent /\ ~isIdempotent(rreq.method)
       THEN /\ rpc' = "direct"
            /\ nextCalls' = nextCalls + 1
            /\ inflight' = inflight + 1
            /\ presented' = Append(presented, rreq.body)
            /\ UNCHANGED <<rreq, attempt, last, bodyBytes, rret>>
       ELSE IF rreq.body = FailingReader
       THEN /\ rpc' = "done"
            /\ last' = Result(Nil, ReadErr)
            /\ rret' = Result(Nil, ReadErr)
            /\ UNCHANGED <<rreq, attempt, bodyBytes, nextCalls, inflight,
                           presented>>
       ELSE /\ bodyBytes' = IF rreq.body # Nil
                            THEN [kind |-> "bytes", data |-> ReadAll(rreq.body)]
                            ELSE Nil
            /\ LoopHead(0, bodyBytes', last,
                        IF rreq.body # Nil
                        THEN Reader(rreq.body.data, Len(rreq.body.data))
                        ELSE Nil,
                        inflight)
            /\ UNCHANGED last
    /\ UNCHANGED <<rconfig, origBody, ctxDone, ctxErr, outcomes, waits>>
    /\ UNCHANGED outsideRetry

\* the only invocation of next for a method that is not retried returns o
DirectReturns(o) ==
    /\ rpc = "direct"
    /\ inflight' = inflight - 1
    /\ outcomes' = Append(outcomes, o)
    /\ \E body \in Consumed(rreq.body) : rreq' = [rreq EXCEPT !.body = body]
    /\ rret' = o
    /\ rpc' = "done"
    /\ UNCHANGED <<rconfig, origBody, ctxDone, ctxErr, attempt, last, bodyBytes, nextCalls,
                   presented, waits>>
    /\ UNCHANGED outsideRetry

\* a loop that sleeps after every attempt, the last one included
SleepsAfterEvery(cfg, att) == TRUE

\* "Don't sleep after the last attempt": attempt < r.config.MaxAttempts-1
SleepsAfter(cfg, att) == att < cfg.MaxAttempts - 1

\* next returns o inside the loop: Execute returns it, or closes the
\* response and goes on to the wait, or to the head of the loop
NextReturnsRetry(o) ==
    /\ rpc = "next"
    /\ outcomes' = Append(outcomes, o)
    /\ \E body \in Consumed(rreq.body) :
         IF ~shouldRetry(rconfig, o)
         THEN /\ last' = o
              /\ rret' = o
              /\ rpc' = "done"
              /\ rreq' = [rreq EXCEPT !.body = body]
              /\ inflight' = inflight - 1
              /\ UNCHANGED <<attempt, nextCalls, presented, waits>>
         ELSE /\ last' = DrainAndClose(o)
              /\ IF SleepsAfter(rconfig, attempt)
                 THEN /\ waits' = Append(waits, attempt)
                      /\ rpc' = "select"
                      /\ rreq' = [rreq EXCEPT !.body = body]
                      /\ inflight' = inflight - 1
                      /\ UNCHANGED <<attempt, nextCalls, presented, rret>>
                 ELSE /\ LoopHead(attempt + 1, bodyBytes, last', body,
                                  inflight - 1)
                      /\ UNCHANGED waits
    /\ UNCHANGED <<rconfig, origBody, ctxDone, ctxErr, bodyBytes>>
    /\ UNCHANGED outsideRetry

\* delay := Backoff.Next(attempt) and the arrival at the select: a case
\* whose channel is ready is taken, or the goroutine parks on both channels
SelectEnter ==
    /\ rpc = "select"
    /\ \E delay \in BackoffNext(rconfig.Backoff, attempt) :
       \E timerReady \in TimerReadyAtOnce(delay) :
         LET cases == SelectWait(ctxDone, timerReady) IN
           IF cases = {} THEN rpc' = "wait"
           ELSE \E c \in cases :
                  rpc' = IF c = "ctx" THEN "cancelled" ELSE "elapsed"
    /\ UNCHANGED <<rconfig, origBody, rreq, ctxDone, ctxErr, attempt, last, bodyBytes,
                   nextCalls, inflight, outcomes, presented, waits, rret>>
    /\ UNCHANGED outsideRetry

\* the timer of time.After(delay) fires while the select is parked
TimerFires ==
    /\ rpc = "wait"
    /\ "timer" \in SelectWait(FALSE, TRUE)
    /\ rpc' = "elapsed"
    /\ UNCHANGED <<rconfig, origBody, rreq, ctxDone, ctxErr, attempt, last, bodyBytes,
                   nextCalls, inflight, outcomes, presented, waits, rret>>
    /\ UNCHANGED outsideRetry

\* the select took <-time.After(delay): the next attempt starts
BackoffElapsed ==
    /\ rpc = "elapsed"
    /\ LoopHead(attempt + 1, bodyBytes, last, rreq.body, inflight)
    /\ UNCHANGED <<rconfig, origBody, ctxDone, ctxErr, last, bodyBytes, outcomes, waits>>
    /\ UNCHANGED outsideRetry

\* the select took <-ctx.Done(): Execute returns ctx.Err()
WaitCancelled ==
    /\ rpc = "cancelled"
    /\ rret' = Result(Nil, ctxErr)
    /\ rpc' = "done"
    /\ UNCHANGED <<rconfig, origBody, rreq, ctxDone, ctxErr, attempt, last, bodyBytes,
                   nextCalls, inflight, outcomes, presented, waits>>
    /\ UNCHANGED outsideRetry

\* the context becomes done with ctx.Err() = err; a select parked in the
\* wait is woken by the closing of ctx.Done()
ContextDone(err) ==
    /\ ~ctxDone
    /\ rpc # "done"
    /\ ctxDone' = TRUE
    /\ ctxErr' = err
    /\ rpc' = IF rpc = "wait" /\ "ctx" \in SelectWait(TRUE, FALSE)
              THEN "cancelled" ELSE rpc
    /\ UNCHANGED <<rconfig, origBody, rreq, attempt, last, bodyBytes, nextCalls,
                   inflight, outcomes, presented, waits, rret>>
    /\ UNCHANGED outsideRetry

\* the caller cancels the context
CancelCtx == ContextDone(CtxCanceled)

NextRetry ==
    \/ RetryExecute
    \/ \E o \in RetryOutcomes : DirectReturns(o)
    \/ \E o \in RetryOutcomes : NextReturnsRetry(o)
    \/ SelectEnter
    \/ TimerFires
    \/ BackoffElapsed
    \/ WaitCancelled
    \/ CancelCtx

SpecRetry == InitRetry /\ [][NextRetry]_vars

----------------------------------------------------------------------------
(* Bulkhead: policy/bulkhead.go *)

DefaultMaxConcurrent == 100

\* newBulkhead with a channel of one slot too many
newBulkheadOneMore(maxConcurrent) ==
    [kind |-> "bulkhead", tokens |-> 0, cap |-> maxConcurrent + 1,
     maxSize |-> maxConcurrent]

\* newBulkhead: semaphore is a channel of capacity maxConcurrent, of which
\* tokens are the elements it holds
newBulkhead(maxConcurrent) ==
    [kind |-> "bulkhead", tokens |-> 0, cap |-> maxConcurrent,
     maxSize |-> maxConcurrent]

\* NewBulkheadPolicy, config: MaxConcurrent 0 takes the default; PerHost is
\* kept as given
NewBulkheadConfig(c) ==
    [MaxConcurrent |-> IF c.MaxConcurrent = 0 THEN DefaultMaxConcurrent
                       ELSE c.MaxConcurrent,
     PerHost |-> c.PerHost]

\* the configurations the model draws from
BulkheadConfigs == [MaxConcurrent : 0..MaxConcurrentBound, PerHost : BOOLEAN]

\* the non-blocking send with the send succeeding on a full channel as well
TryAcquireOffByOne(b) == IF b.tokens <= b.cap THEN "acquired" ELSE "rejected"

\* select { case b.semaphore <- struct{}{}: ... default: ... }: the send
\* succeeds when the channel has room, otherwise the default case is taken
TryAcquire(b) == IF b.tokens < b.cap THEN "acquired" ELSE "rejected"

\* the ways next can end
BHExits == {"response", "error", "panic"}

\* the release of the token written after the call of next instead of
\* deferred: a panic of next skips it
ReleaseUnlessPanic(b, exit) ==
    IF exit = "panic" THEN b ELSE [b EXCEPT !.tokens = @ - 1]

\* defer func() { <-b.semaphore }(): runs however next ends
Release(b, exit) == [b EXCEPT !.tokens = @ - 1]

\* a call of Execute that ended in a panic of next
Panicked == [kind |-> "panic"]

\* what Execute comes to when next ends with exit
BHOutcome(exit) ==
    IF exit = "response" THEN Result(Response(200), Nil)
    ELSE IF exit = "error" THEN Result(Nil, NetErr)
    ELSE Panicked

BulkheadFullError ==
    ErrorsNew("policy.BulkheadPolicy.Execute", "bulkhead capacity exceeded")

\* the bulkhead that the reference sel of a caller points to
BulkheadAt(sel) == IF sel = "global" THEN global ELSE bulkheads[sel]

\* BulkheadPolicy.ActiveRequests
ActiveRequests(h) ==
    IF bconfig.PerHost
    THEN (IF h \notin DOMAIN bulkheads THEN 0 ELSE bulkheads[h].tokens)
    ELSE (IF global # Nil THEN global.tokens ELSE 0)

InitBH ==
    /\ RetryOff
    /\ ExtrasOff
    /\ config = NewCircuitBreakerPolicy(CHOOSE c \in CBConfigs : TRUE)
    /\ breakers = <<>>
    /\ now = 0
    /\ pc = [p \in Procs |-> "idle"]
    /\ host = [p \in Procs |-> ""]
    /\ ret = [p \in Procs |-> NoResult]
    /\ invoked = [p \in Procs |-> 0]
    /\ bconfig \in {NewBulkheadConfig(c) : c \in BulkheadConfigs}
    /\ bulkheads = <<>>
    /\ global = IF bconfig.PerHost THEN Nil ELSE newBulkhead(bconfig.MaxConcurrent)
    /\ bpc = [p \in BHProcs |-> "idle"]
    /\ bhost = [p \in BHProcs |-> ""]
    /\ bsel = [p \in BHProcs |-> ""]
    /\ bret = [p \in BHProcs |-> NoResult]
    /\ binvoked = [p \in BHProcs |-> 0]

\* Execute is called for host h: in global mode b is bp.global, per host
\* getBulkheadForHost is entered
BulkheadExecute(p, h) ==
    /\ bpc[p] = "idle"
    /\ bhost' = [bhost EXCEPT ![p] = h]
    /\ bret' = [bret EXCEPT ![p] = NoResult]
    /\ binvoked' = [binvoked EXCEPT ![p] = 0]
    /\ IF bconfig.PerHost
       THEN /\ bpc' = [bpc EXCEPT ![p] = "lookup"]
            /\ bsel' = [bsel EXCEPT ![p] = ""]
       ELSE /\ bpc' = [bpc EXCEPT ![p] = "acquire"]
            /\ bsel' = [bsel EXCEPT ![p] = "global"]
    /\ UNCHANGED <<bconfig, bulkheads, global>>
    /\ UNCHANGED outsideBH

\* getBulkheadForHost, the lookup under the read lock
BHLookup(p) ==
    /\ bpc[p] = "lookup"
    /\ IF bhost[p] \in DOMAIN bulkheads
       THEN /\ bsel' = [bsel EXCEPT ![p] = bhost[p]]
            /\ bpc' = [bpc EXCEPT ![p] = "acquire"]
       ELSE /\ bpc' = [bpc EXCEPT ![p] = "create"]
            /\ UNCHANGED bsel
    /\ UNCHANGED <<bconfig, bulkheads, global, bhost, bret, binvoked>>
    /\ UNCHANGED outsideBH

\* getBulkheadForHost, the second look and the creation under the write lock
BHCreate(p) ==
    /\ bpc[p] = "create"
    /\ bulkheads' = IF bhost[p] \in DOMAIN bulkheads THEN bulkheads
                    ELSE [h \in DOMAIN bulkheads \cup {bhost[p]} |->
                            IF h = bhost[p]
                            THEN newBulkhead(bconfig.MaxConcurrent)
                            ELSE bulkheads[h]]
    /\ bsel' = [bsel EXCEPT ![p] = bhost[p]]
    /\ bpc' = [bpc EXCEPT ![p] = "acquire"]
    /\ UNCHANGED <<bconfig, global, bhost, bret, binvoked>>
    /\ UNCHANGED outsideBH

\* b with its semaphore changed to nb, where b is the bulkhead at sel
SetBulkheadAt(sel, nb) ==
    IF sel = "global"
    THEN global' = nb /\ UNCHANGED bulkheads
    ELSE bulkheads' = [bulkheads EXCEPT ![sel] = nb] /\ UNCHANGED global

\* the select of Execute: the token is taken and next invoked, or Execute
\* returns the rejection
BHAcquire(p) ==
    /\ bpc[p] = "acquire"
    /\ LET b == BulkheadAt(bsel[p]) IN
         IF TryAcquire(b) = "acquired"
         THEN /\ SetBulkheadAt(bsel[p], [b EXCEPT !.tokens = @ + 1])
              /\ bpc' = [bpc EXCEPT ![p] = "next"]
              /\ binvoked' = [binvoked EXCEPT ![p] = @ + 1]
              /\ UNCHANGED bret
         ELSE /\ bret' = [bret EXCEPT ![p] = Result(Nil, BulkheadFullError)]
              /\ bpc' = [bpc EXCEPT ![p] = "idle"]
              /\ UNCHANGED <<bulkheads, global, binvoked>>
    /\ UNCHANGED <<bconfig, bhost, bsel>>
    /\ UNCHANGED outsideBH

\* next ends with exit; the deferred function gives the token back and
\* Execute returns what next returned, or the panic goes on to the caller
BHNextExits(p, exit) ==
    /\ bpc[p] = "next"
    /\ SetBulkheadAt(bsel[p], Release(BulkheadAt(bsel[p]), exit))
    /\ bret' = [bret EXCEPT ![p] = BHOutcome(exit)]
    /\ bpc' = [bpc EXCEPT ![p] = "idle"]
    /\ UNCHANGED <<bconfig, bhost, bsel, binvoked>>
    /\ UNCHANGED outsideBH

NextBH ==
    \/ \E p \in BHProcs, h \in BHHosts : BulkheadExecute(p, h)
    \/ \E p \in BHProcs : BHLookup(p)
    \/ \E p \in BHProcs : BHCreate(p)
    \/ \E p \in BHProcs : BHAcquire(p)
    \/ \E p \in BHProcs, exit \in BHExits : BHNextExits(p, exit)

SpecBH == InitBH /\ [][NextBH]_vars

----------------------------------------------------------------------------
(* Timeout policy: TimeoutPolicy of package policy *)

\* durations of the timeout policy are in seconds
DefaultRequestTimeout == 30

\* NewTimeoutPolicy: Request 0 takes the default
NewTimeoutPolicy(c) ==
    [Request |-> IF c.Request = 0 THEN DefaultRequestTimeout ELSE c.Request]

\* the configurations the model draws from
TimeoutConfigs == [Request : -1..MaxRequestTimeout]

\* context.WithTimeout that does not look at the deadline of the parent
WithTimeoutIgnoringParent(parent, t, d) == Deadline(t + d)

\* the deadline of context.WithTimeout(parent, d) called at time t: that of
\* the parent if it is earlier than t + d
WithTimeout(parent, t, d) ==
    IF parent # NoDeadline /\ parent.at < t + d THEN parent ELSE Deadline(t + d)

\* ctx.Err() after the deadline, context.DeadlineExceeded
DeadlineExceeded == ErrorsNew("context.DeadlineExceeded", "context deadline exceeded")

\* errors.New("request timeout") of TimeoutPolicy.Execute
TimeoutError == ErrorsNew("policy.TimeoutPolicy.Execute", "request timeout")

\* the end of Execute with the error compared to context.DeadlineExceeded
\* by ==
TimeoutRemapDirect(r) ==
    IF r.err # Nil /\ r.err = DeadlineExceeded
    THEN Result(Nil, TimeoutError)
    ELSE r

\* the end of Execute: what it returns when next returned r
TimeoutRemap(r) ==
    IF r.err # Nil /\ ErrorsIs(r.err, DeadlineExceeded)
    THEN Result(Nil, TimeoutError)
    ELSE r

\* what next can answer to the timeout policy: a response, a failure of the
\* transport, the expiry of a deadline bare or wrapped (with or without a
\* response next to it), a cancellation
TimeoutOutcomes ==
    {Result(Response(200), Nil), Result(Response(503), Nil),
     Result(Nil, NetErr), Result(Nil, CtxCanceled),
     Result(Nil, DeadlineExceeded), Result(Nil, UrlError(DeadlineExceeded)),
     Result(Response(200), UrlError(DeadlineExceeded))}

InitTO ==
    /\ InstrumentationOff
    /\ ContextsOff
    /\ ProbeOff
    /\ PoolOff
    /\ BackoffOff
    /\ MetricsOff
    /\ ClientOff
    /\ ExecutorOff
    /\ RetryOff
    /\ BulkheadOff
    /\ ChainedOff
    /\ config = NewCircuitBreakerPolicy(CHOOSE c \in CBConfigs : TRUE)
    /\ breakers = <<>>
    /\ now = 0
    /\ pc = [p \in Procs |-> "idle"]
    /\ host = [p \in Procs |-> ""]
    /\ ret = [p \in Procs |-> NoResult]
    /\ invoked = [p \in Procs |-> 0]
    /\ tconfig \in {NewTimeoutPolicy(c) : c \in TimeoutConfigs}
    /\ tnow = 0
    /\ tparent \in {NoDeadline} \cup {Deadline(t) : t \in 0..MaxTime}
    /\ tstart = 0
    /\ tctx = NoDeadline
    /\ tpc = "idle"
    /\ tout = NoResult
    /\ tret = NoResult

\* Execute up to its invocation of next: timeoutCtx is derived
TimeoutEnter ==
    /\ tpc # "next"
    /\ tstart' = tnow
    /\ tctx' = WithTimeout(tparent, tnow, tconfig.Request)
    /\ tpc' = "next"
    /\ tout' = NoResult
    /\ tret' = NoResult
    /\ UNCHANGED <<tconfig, tnow, tparent>>

\* next returns o and Execute returns
TimeoutLeave(o) ==
    /\ tpc = "next"
    /\ tout' = o
    /\ tret' = TimeoutRemap(o)
    /\ tpc' = "done"
    /\ UNCHANGED <<tconfig, tnow, tparent, tstart, tctx>>

\* the timeout policy on its own, next being the transport
TimeoutExecute == TimeoutEnter /\ UNCHANGED outsideTimeout
TimeoutNextReturns(o) == TimeoutLeave(o) /\ UNCHANGED outsideTimeout

\* time passes
TickTO ==
    /\ tnow < MaxTime
    /\ tnow' = tnow + 1
    /\ UNCHANGED <<tconfig, tparent, tstart, tctx, tpc, tout, tret>>
    /\ UNCHANGED outsideTimeout

NextTO ==
    \/ TimeoutExecute
    \/ \E o \in TimeoutOutcomes : TimeoutNextReturns(o)
    \/ TickTO

SpecTO == InitTO /\ [][NextTO]_vars

----------------------------------------------------------------------------
(* The timeout policy and the retry policy in one chain *)

\* what a transport that honours its context answers: once the context is
\* done, the failure that wraps its error
TransportOutcomes(expired) ==
    IF expired THEN {Result(Nil, UrlError(DeadlineExceeded))}
    ELSE {Result(Response(200), Nil), Result(Response(503), Nil),
          Result(Nil, NetErr)}

InitTR ==
    /\ InstrumentationOff
    /\ ContextsOff
    /\ ProbeOff
    /\ PoolOff
    /\ BackoffOff
    /\ MetricsOff
    /\ ClientOff
    /\ ExecutorOff
    /\ BulkheadOff
    /\ config = NewCircuitBreakerPolicy(CHOOSE c \in CBConfigs : TRUE)
    /\ breakers = <<>>
    /\ now = 0
    /\ pc = [p \in Procs |-> "idle"]
    /\ host = [p \in Procs |-> ""]
    /\ ret = [p \in Procs |-> NoResult]
    /\ invoked = [p \in Procs |-> 0]
    /\ rconfig \in {NewRetryPolicy([MaxAttempts |-> n, Backoff |-> b,
                                    OnlyIdempotent |-> FALSE,
                                    RetryableStatusCodes |-> Nil]) :
                      n \in 1..MaxAttemptsBound,
                      b \in {NewConstantBackoff(0), NewConstantBackoff(1)}}
    /\ rreq = [method |-> "GET", body |-> Nil]
    /\ origBody = Nil
    /\ ctxDone = FALSE
    /\ ctxErr = Nil
    /\ rpc = "idle"
    /\ attempt = 0
    /\ last = NoResult
    /\ bodyBytes = Nil
    /\ nextCalls = 0
    /\ inflight = 0
    /\ outcomes = <<>>
    /\ presented = <<>>
    /\ waits = <<>>
    /\ rret = NoResult
    /\ tconfig \in {NewTimeoutPolicy([Request |-> d]) : d \in 1..MaxRequestTimeout}
    /\ tnow = 0
    /\ tparent = NoDeadline
    /\ tstart = 0
    /\ tctx = NoDeadline
    /\ tpc = "idle"
    /\ tout = NoResult
    /\ tret = NoResult
    /\ order \in {"outside", "inside"}
    /\ entered = 0

\* timeout outside: the chain enters TimeoutPolicy.Execute first
TROuterEnter ==
    /\ order = "outside"
    /\ tpc = "idle"
    /\ TimeoutEnter
    /\ entered' = entered + 1
    /\ UNCHANGED order
    /\ UNCHANGED outsideTR

\* RetryPolicy.Execute is entered: by the timeout policy's call of next, or
\* first in the chain
TRRetryExecute ==
    /\ order = "outside" => tpc = "next"
    /\ RetryExecute

\* timeout outside: the transport answers an attempt of the retry policy,
\* whose context is timeoutCtx
TRTransportToRetry(o) ==
    /\ order = "outside"
    /\ o \in TransportOutcomes(ctxDone)
    /\ NextReturnsRetry(o)

\* timeout outside: the deadline of timeoutCtx passes during the retry loop
TRDeadlineExpires ==
    /\ order = "outside"
    /\ tpc = "next"
    /\ tnow >= tctx.at
    /\ ContextDone(DeadlineExceeded)

\* timeout outside: RetryPolicy.Execute has returned to TimeoutPolicy.Execute
TROuterLeave ==
    /\ order = "outside"
    /\ rpc = "done"
    /\ TimeoutLeave(rret)
    /\ UNCHANGED trVars
    /\ UNCHANGED outsideTR

\* timeout inside: an attempt of the retry policy enters
\* TimeoutPolicy.Execute
TRInnerEnter ==
    /\ order = "inside"
    /\ rpc = "next"
    /\ entered < nextCalls
    /\ TimeoutEnter
    /\ entered' = entered + 1
    /\ UNCHANGED order
    /\ UNCHANGED outsideTR

\* timeout inside: the transport answers the timeout policy
TRTransportToTimeout(o) ==
    /\ order = "inside"
    /\ tpc = "next"
    /\ o \in TransportOutcomes(tnow >= tctx.at)
    /\ TimeoutLeave(o)
    /\ UNCHANGED trVars
    /\ UNCHANGED outsideTR

\* timeout inside: TimeoutPolicy.Execute has returned to the retry loop
TRInnerLeave ==
    /\ order = "inside"
    /\ tpc = "done"
    /\ entered = nextCalls
    /\ NextReturnsRetry(tret)

AllTransportOutcomes == TransportOutcomes(TRUE) \cup TransportOutcomes(FALSE)

NextTR ==
    \/ TROuterEnter
    \/ TRRetryExecute
    \/ \E o \in AllTransportOutcomes : TRTransportToRetry(o)
    \/ TRDeadlineExpires
    \/ TROuterLeave
    \/ TRInnerEnter
    \/ \E o \in AllTransportOutcomes : TRTransportToTimeout(o)
    \/ TRInnerLeave
    \/ SelectEnter
    \/ TimerFires
    \/ BackoffElapsed
    \/ WaitCancelled
    \/ TickTO

SpecTR == InitTR /\ [][NextTR]_vars

----------------------------------------------------------------------------
(* Chain: the composition of policies and transport *)

\* the longest policy list and the most calls of next one Execute makes
MaxPolicies == 3
MaxNextCalls == 2

\* the transport's Do, the final executor
Final == [kind |-> "final"]

\* the closure of one loop iteration: it runs policy.Execute(ctx, req, next)
Closure(policy, next) == [kind |-> "closure", policy |-> policy, next |-> next]

RECURSIVE ChainForwardFrom(_, _, _)
ChainForwardFrom(ps, i, ex) ==
    IF i > Len(ps) THEN ex ELSE ChainForwardFrom(ps, i + 1, Closure(ps[i], ex))

\* a Chain that wraps from the first policy onwards
ChainForward(ps, final) == ChainForwardFrom(ps, 1, final)

\* the loop of Chain, from index i down to the first policy
RECURSIVE ChainFrom(_, _, _)
ChainFrom(ps, i, ex) ==
    IF i < 1 THEN ex ELSE ChainFrom(ps, i - 1, Closure(ps[i], ex))

Chain(ps, final) == ChainFrom(ps, Len(ps), final)

\* a policy of the list: its place in the list and how often its Execute
\* calls next
PolicyLists ==
    UNION {[1..n -> 0..MaxNextCalls] : n \in 0..MaxPolicies}

Policy(i, calls) == [index |-> i, calls |-> calls]

\* what entering an executor does: the transport is entered and returns; a
\* closure enters its policy's Execute
Enter(ex, callers) ==
    IF ex.kind = "final"
    THEN /\ trace' = Append(trace, Len(policies) + 1)
         /\ stack' = callers
    ELSE /\ trace' = Append(trace, ex.policy.index)
         /\ stack' = Append(callers, [policy |-> ex.policy, next |-> ex.next,
                                      left |-> ex.policy.calls])

InitChain ==
    /\ InstrumentationOff
    /\ ContextsOff
    /\ ProbeOff
    /\ PoolOff
    /\ BackoffOff
    /\ MetricsOff
    /\ ClientOff
    /\ BulkheadOff
    /\ RetryOff
    /\ TimeoutOff
    /\ ChainedOff
    /\ config = NewCircuitBreakerPolicy(CHOOSE c \in CBConfigs : TRUE)
    /\ breakers = <<>>
    /\ now = 0
    /\ pc = [p \in Procs |-> "idle"]
    /\ host = [p \in Procs |-> ""]
    /\ ret = [p \in Procs |-> NoResult]
    /\ invoked = [p \in Procs |-> 0]
    /\ \E f \in PolicyLists :
          /\ policies = [i \in DOMAIN f |-> Policy(i, f[i])]
          /\ executor = Chain([i \in DOMAIN f |-> Policy(i, f[i])], Final)
    /\ stack = <<>>
    /\ trace = <<>>
    /\ cpc = "idle"

\* one call executor(ctx, req) of the composed executor
ExecutorCall ==
    /\ cpc = "idle"
    /\ stack = <<>>
    /\ Enter(executor, <<>>)
    /\ cpc' = "running"
    /\ UNCHANGED <<policies, executor>>
    /\ UNCHANGED outsideChain

\* the innermost Execute in progress calls its next
PolicyCallsNext ==
    /\ cpc = "running"
    /\ stack # <<>>
    /\ LET top == stack[Len(stack)]
           rest == SubSeq(stack, 1, Len(stack) - 1)
       IN /\ top.left > 0
          /\ Enter(top.next, Append(rest, [top EXCEPT !.left = @ - 1]))
    /\ UNCHANGED <<policies, executor, cpc>>
    /\ UNCHANGED outsideChain

\* the innermost Execute in progress returns
PolicyReturns ==
    /\ cpc = "running"
    /\ stack # <<>>
    /\ stack[Len(stack)].left = 0
    /\ stack' = SubSeq(stack, 1, Len(stack) - 1)
    /\ UNCHANGED <<policies, executor, trace, cpc>>
    /\ UNCHANGED outsideChain

\* the call of the executor returns to its caller
ExecutorReturns ==
    /\ cpc = "running"
    /\ stack = <<>>
    /\ cpc' = "done"
    /\ UNCHANGED <<policies, executor, stack, trace>>
    /\ UNCHANGED outsideChain

NextChain ==
    \/ ExecutorCall
    \/ PolicyCallsNext
    \/ PolicyReturns
    \/ ExecutorReturns

SpecChain == InitChain /\ [][NextChain]_vars

----------------------------------------------------------------------------
(* Client.Do with request options, and CircuitBreakerPolicy.State *)

\* the callers and the hosts of the request URLs
DoProcs == {"p1"}
UrlHosts == {"h", "h:80"}

\* the request options of request.go
RequestWithTimeout(d) == [option |-> "WithTimeout", arg |-> d]
WithRetryable(retryable) == [option |-> "WithRetryable", arg |-> retryable]
WithoutCircuitBreaker == [option |-> "WithoutCircuitBreaker", arg |-> Nil]
WithoutRetry == [option |-> "WithoutRetry", arg |-> Nil]
WithoutTimeout == [option |-> "WithoutTimeout", arg |-> Nil]
WithoutBulkhead == [option |-> "WithoutBulkhead", arg |-> Nil]

\* &requestConfig{}
ZeroRequestConfig ==
    [timeout |-> Nil, retryable |-> Nil, disableCircuitBreaker |-> FALSE,
     disableRetry |-> FALSE, disableTimeout |-> FALSE, disableBulkhead |-> FALSE]

\* opt.apply(cfg)
ApplyOption(cfg, opt) ==
    IF opt.option = "WithTimeout" THEN [cfg EXCEPT !.timeout = opt.arg]
    ELSE IF opt.option = "WithRetryable" THEN [cfg EXCEPT !.retryable = opt.arg]
    ELSE IF opt.option = "WithoutCircuitBreaker"
         THEN [cfg EXCEPT !.disableCircuitBreaker = TRUE]
    ELSE IF opt.option = "WithoutRetry" THEN [cfg EXCEPT !.disableRetry = TRUE]
    ELSE IF opt.option = "WithoutTimeout" THEN [cfg EXCEPT !.disableTimeout = TRUE]
    ELSE [cfg EXCEPT !.disableBulkhead = TRUE]

RECURSIVE applyOptionsFrom(_, _, _)
applyOptionsFrom(opts, i, cfg) ==
    IF i > Len(opts) THEN cfg
    ELSE applyOptionsFrom(opts, i + 1, ApplyOption(cfg, opts[i]))

applyOptions(opts) == applyOptionsFrom(opts, 1, ZeroRequestConfig)

\* the option lists the model draws from
RequestOptionLists ==
    {<<>>, <<WithoutCircuitBreaker>>, <<WithRetryable(TRUE), WithoutRetry>>}

\* what the transport answers in this section
ClientOutcomes == {Result(Response(200), Nil), Result(Response(500), Nil)}

\* observability.NormalizeHost: it returns the host as it is
NormalizeHost(h) == h

InitClient ==
    /\ InstrumentationOff
    /\ ContextsOff
    /\ ProbeOff
    /\ PoolOff
    /\ BackoffOff
    /\ MetricsOff
    /\ RetryOff
    /\ BulkheadOff
    /\ TimeoutOff
    /\ ChainedOff
    /\ ExecutorOff
    /\ config = NewCircuitBreakerPolicy([ErrorThreshold |-> 0, MinRequests |-> 2,
                                         SleepWindow |-> 1, SuccessThreshold |-> 1])
    /\ breakers = <<>>
    /\ now = 0
    /\ pc = [p \in Procs |-> "idle"]
    /\ host = [p \in Procs |-> ""]
    /\ ret = [p \in Procs |-> NoResult]
    /\ invoked = [p \in Procs |-> 0]
    /\ options = [p \in Procs |-> <<>>]
    /\ observed = Nil

\* Client.Do of a request that carries the options opts: the request is
\* converted and handed to the executor; req.Options is not read
ClientDoWith(p, h, opts) ==
    /\ ClientDoExecutor(p, h)
    /\ options' = [options EXCEPT ![p] = opts]
    /\ UNCHANGED observed
    /\ UNCHANGED outsideClient

\* a State that goes through the admission path of Execute
StateCallAdmitting(h) ==
    /\ LET bs == IF h \in DOMAIN breakers THEN breakers
                 ELSE breakers @@ (h :> NewBreaker(now))
           r == canExecute(bs[h], config, now)
       IN /\ breakers' = [bs EXCEPT ![h] = r[2]]
          /\ observed' = [host |-> h, state |-> r[2].state]
    /\ UNCHANGED <<config, now, pc, host, ret, invoked, options>>
    /\ UNCHANGED outsideClient

\* CircuitBreakerPolicy.State(host), called by a monitor
StateCall(h) ==
    /\ observed' = [host |-> h, state |-> State(h)]
    /\ UNCHANGED <<config, breakers, now, pc, host, ret, invoked, options>>
    /\ UNCHANGED outsideClient

\* requests with options to one host
NextClient ==
    \/ \E p \in DoProcs, opts \in RequestOptionLists : ClientDoWith(p, "h", opts)
    \/ \E p \in DoProcs : getBreakerForHost(p)
    \/ \E p \in DoProcs : CanExecute(p)
    \/ \E p \in DoProcs, o \in ClientOutcomes : NextReturns(p, o)
    \/ Tick

SpecClient == InitClient /\ [][NextClient]_vars

\* requests to two hosts
NextHosts ==
    \/ \E p \in DoProcs, h \in UrlHosts : ClientDo(p, h)
    \/ \E p \in DoProcs : getBreakerForHost(p)
    \/ \E p \in DoProcs : CanExecute(p)
    \/ \E p \in DoProcs, o \in ClientOutcomes : NextReturns(p, o)
    \/ Tick

SpecHosts == InitClient /\ [][NextHosts]_vars

\* requests to one host and a monitor that asks for the state of any host
NextState ==
    \/ \E p \in DoProcs : ClientDo(p, "h")
    \/ \E p \in DoProcs : getBreakerForHost(p)
    \/ \E p \in DoProcs : CanExecute(p)
    \/ \E p \in DoProcs, o \in ClientOutcomes : NextReturns(p, o)
    \/ \E h \in UrlHosts : StateCall(h)
    \/ Tick

SpecState == InitClient /\ [][NextState]_vars

----------------------------------------------------------------------------
(* Metrics policy: policy/metrics.go and observability/metrics.go *)

MetricsCallers == {"m1", "m2"}

\* the reason labels of the retry attempt counter
RetryReasons == {"network_error", "5xx", "429", "custom"}

\* MetricsCollector.IncrementActiveRequests and DecrementActiveRequests on
\* the gauge vector g
IncrementActiveRequests(g, h) == [g EXCEPT ![h] = @ + 1]
DecrementActiveRequests(g, h) == [g EXCEPT ![h] = @ - 1]

\* MetricsCollector.IncrementRetryAttempts on the counter vector c
IncrementRetryAttempts(c, reason) == [c EXCEPT ![reason] = @ + 1]

\* a decrement written after the call of next instead of deferred: a panic
\* of next skips it
DeferredDecrementUnlessPanic(g, h, out) ==
    IF out = Panicked THEN g ELSE DecrementActiveRequests(g, h)

\* defer m.collector.DecrementActiveRequests(host): it runs however Execute
\* is left
DeferredDecrement(g, h, out) == DecrementActiveRequests(g, h)

\* what next answers to the metrics policy
MetricsOutcomes == {Result(Response(200), Nil), Result(Nil, NetErr)}

\* a collector whose gauges and counters stand at zero and idle callers
MetricsOn ==
    /\ activeRequests = [h \in UrlHosts |-> 0]
    /\ durations = {}
    /\ retryAttempts = [r \in RetryReasons |-> 0]
    /\ mpc = [p \in MetricsCallers |-> "idle"]
    /\ mhost = [p \in MetricsCallers |-> ""]
    /\ mout = [p \in MetricsCallers |-> NoResult]
    /\ mret = [p \in MetricsCallers |-> NoResult]

InitMetrics ==
    /\ InstrumentationOff
    /\ ContextsOff
    /\ ProbeOff
    /\ PoolOff
    /\ BackoffOff
    /\ RetryOff
    /\ BulkheadOff
    /\ TimeoutOff
    /\ ChainedOff
    /\ ExecutorOff
    /\ ClientOff
    /\ config = NewCircuitBreakerPolicy(CHOOSE c \in CBConfigs : TRUE)
    /\ breakers = <<>>
    /\ now = 0
    /\ pc = [p \in Procs |-> "idle"]
    /\ host = [p \in Procs |-> ""]
    /\ ret = [p \in Procs |-> NoResult]
    /\ invoked = [p \in Procs |-> 0]
    /\ MetricsOn

\* MetricsPolicy.Execute up to its call of next, for a request to URL host h
MetricsExecute(p, h) ==
    /\ mpc[p] = "idle"
    /\ mhost' = [mhost EXCEPT ![p] = NormalizeHost(h)]
    /\ activeRequests' = IncrementActiveRequests(activeRequests, NormalizeHost(h))
    /\ mpc' = [mpc EXCEPT ![p] = "next"]
    /\ mout' = [mout EXCEPT ![p] = NoResult]
    /\ mret' = [mret EXCEPT ![p] = NoResult]
    /\ UNCHANGED <<durations, retryAttempts>>
    /\ UNCHANGED outsideMetrics

\* next returns o to Execute, which records the duration under the status
\* of the response, or under 0 for an error
MetricsNextReturns(p, o) ==
    /\ mpc[p] = "next"
    /\ mout' = [mout EXCEPT ![p] = o]
    /\ durations' =
          IF o.resp # Nil
          THEN durations \cup {[host |-> mhost[p], status |-> o.resp.status]}
          ELSE IF o.err # Nil
          THEN durations \cup {[host |-> mhost[p], status |-> 0]}
          ELSE durations
    /\ mpc' = [mpc EXCEPT ![p] = "return"]
    /\ UNCHANGED <<activeRequests, retryAttempts, mhost, mret>>
    /\ UNCHANGED outsideMetrics

\* next panics: Execute unwinds
MetricsNextPanics(p) ==
    /\ mpc[p] = "next"
    /\ mout' = [mout EXCEPT ![p] = Panicked]
    /\ mpc' = [mpc EXCEPT ![p] = "return"]
    /\ UNCHANGED <<activeRequests, durations, retryAttempts, mhost, mret>>
    /\ UNCHANGED outsideMetrics

\* Execute is left, by return resp, err or by the panic: the deferred
\* decrement runs
MetricsReturns(p) ==
    /\ mpc[p] = "return"
    /\ activeRequests' = DeferredDecrement(activeRequests, mhost[p], mout[p])
    /\ mret' = [mret EXCEPT ![p] = mout[p]]
    /\ mpc' = [mpc EXCEPT ![p] = "idle"]
    /\ UNCHANGED <<durations, retryAttempts, mhost, mout>>
    /\ UNCHANGED outsideMetrics

NextMetrics ==
    \/ \E p \in MetricsCallers, h \in UrlHosts : MetricsExecute(p, h)
    \/ \E p \in MetricsCallers, o \in MetricsOutcomes : MetricsNextReturns(p, o)
    \/ \E p \in MetricsCallers : MetricsNextPanics(p)
    \/ \E p \in MetricsCallers : MetricsReturns(p)

SpecMetrics == InitMetrics /\ [][NextMetrics]_vars

\* the retry policy of the retry section in a client whose metrics are
\* enabled: the collector exists, and RetryPolicy holds no reference to it
InitRetryMetrics ==
    /\ InstrumentationOff
    /\ ContextsOff
    /\ ProbeOff
    /\ PoolOff
    /\ BackoffOff
    /\ config = NewCircuitBreakerPolicy(CHOOSE c \in CBConfigs : TRUE)
    /\ breakers = <<>>
    /\ now = 0
    /\ pc = [p \in Procs |-> "idle"]
    /\ host = [p \in Procs |-> ""]
    /\ ret = [p \in Procs |-> NoResult]
    /\ invoked = [p \in Procs |-> 0]
    /\ BulkheadOff
    /\ TimeoutOff
    /\ ChainedOff
    /\ ExecutorOff
    /\ ClientOff
    /\ MetricsOn
    /\ rconfig \in {NewRetryPolicy(c) : c \in RetryConfigs}
    /\ rreq \in [method : Methods, body : {Nil}]
    /\ origBody = rreq.body
    /\ ctxDone = FALSE
    /\ ctxErr = Nil
    /\ rpc = "idle"
    /\ attempt = 0
    /\ last = NoResult
    /\ bodyBytes = Nil
    /\ nextCalls = 0
    /\ inflight = 0
    /\ outcomes = <<>>
    /\ presented = <<>>
    /\ waits = <<>>
    /\ rret = NoResult

SpecRetryMetrics == InitRetryMetrics /\ [][NextRetry]_vars

----------------------------------------------------------------------------
(* Backoff strategies with the width of time.Duration: package backoff *)

\* time.Duration is an int64 of nanoseconds. Durations are counted here in
\* units of 2^56 ns, so that 2^63 ns is 128 units and the arithmetic of the
\* int64 is kept for the multiples of the unit.
TwoTo63 == 128
MaxInt64 == TwoTo63 - 1
MinInt64 == 0 - TwoTo63

\* the largest retry index the model hands to Next
MaxRetryIndex == 20

\* the int64 that the mathematical integer x wraps to
WrapInt64(x) == ((x + TwoTo63) % (2 * TwoTo63)) - TwoTo63

\* float64 values are kept exact up to 2^63 ns; TwoTo63 stands for every
\* value from there on
RECURSIVE FloatPowTimes(_, _, _)
FloatPowTimes(initial, factor, n) ==
    IF n = 0 THEN initial
    ELSE LET r == FloatPowTimes(initial, factor, n - 1)
         IN  IF r * factor >= TwoTo63 THEN TwoTo63 ELSE r * factor

\* time.Duration(f) for a float64 f: the value when it fits; beyond the
\* int64 range the result is whatever the build produces, the smallest
\* int64 on some platforms and the largest on others
DurationOfFloat(f, plat) ==
    IF f < TwoTo63 THEN f
    ELSE IF plat = "saturating" THEN MaxInt64 ELSE MinInt64

Platforms == {"indefinite", "saturating"}

\* backoff.NewLinearBackoff(interval)
NewLinearBackoff(interval) == [kind |-> "LinearBackoff", Interval |-> interval]

\* ConstantBackoff.Next(retry)
ConstantNext(c, retry) == {c.Interval}

\* LinearBackoff.Next(retry): l.Interval * time.Duration(retry+1), an int64
\* multiplication
LinearNext(l, retry) == {WrapInt64(l.Interval * WrapInt64(retry + 1))}

\* ExponentialBackoff.Next(retry): the durations it can return; with jitter
\* rand.Float64() * delay is any value from 0 up to, not including, delay
ExponentialNext(e, retry, plat) ==
    LET factor == IF e.Factor = 0 THEN 2 ELSE e.Factor
        delay  == FloatPowTimes(e.Initial, factor, retry)
        capped == IF e.Max > 0 /\ DurationOfFloat(delay, plat) > e.Max
                  THEN e.Max ELSE delay
    IN  IF e.Jitter
        THEN {DurationOfFloat(f, plat) :
                 f \in (IF capped > 0 THEN 0..(capped - 1) ELSE {0})}
        ELSE {DurationOfFloat(capped, plat)}

\* Backoff.Next(retry) of the strategy b
StrategyNext(b, retry, plat) ==
    IF b.kind = "ConstantBackoff" THEN ConstantNext(b, retry)
    ELSE IF b.kind = "LinearBackoff" THEN LinearNext(b, retry)
    ELSE ExponentialNext(b, retry, plat)

\* the strategies the model draws from, with non-negative durations
Strategies ==
    {NewConstantBackoff(i) : i \in {0, 1, 64}}
    \cup {NewLinearBackoff(i) : i \in {0, 1, 8}}
    \cup [kind : {"ExponentialBackoff"}, Initial : {0, 1, 3}, Max : {0, 8},
          Factor : {0, 2, 3}, Jitter : BOOLEAN]

InitBackoff ==
    /\ InstrumentationOff
    /\ ContextsOff
    /\ ProbeOff
    /\ PoolOff
    /\ RetryOff
    /\ BulkheadOff
    /\ TimeoutOff
    /\ ChainedOff
    /\ ExecutorOff
    /\ ClientOff
    /\ MetricsOff
    /\ config = NewCircuitBreakerPolicy(CHOOSE c \in CBConfigs : TRUE)
    /\ breakers = <<>>
    /\ now = 0
    /\ pc = [p \in Procs |-> "idle"]
    /\ host = [p \in Procs |-> ""]
    /\ ret = [p \in Procs |-> NoResult]
    /\ invoked = [p \in Procs |-> 0]
    /\ strategy \in Strategies
    /\ retryIndex \in 0..MaxRetryIndex
    /\ platform \in Platforms
    /\ delayOut = Nil

\* one call strategy.Next(retryIndex)
BackoffNextCall ==
    /\ delayOut = Nil
    /\ \E d \in StrategyNext(strategy, retryIndex, platform) :
          delayOut' = [delay |-> d]
    /\ UNCHANGED <<strategy, retryIndex, platform>>
    /\ UNCHANGED outsideBackoff

NextBackoff == BackoffNextCall

SpecBackoff == InitBackoff /\ [][NextBackoff]_vars

----------------------------------------------------------------------------
(* Worker pool: wp/pool.go *)

\* the largest pool, queue capacity and number of tasks of the model
MaxWorkersBound == 2
MaxQueueBuffer == 2
MaxTasks == 2

Submitters == {"s1", "s2"}

\* the uids of the model: "u" hashes to a multiple of every pool size, "v"
\* to the same or to the next number
Uids == {"u", "v"}
UidHashes == {[uid \in Uids |-> IF uid = "u" THEN 0 ELSE h] : h \in 0..1}

\* no circuit breaker is in use
CircuitBreakerOff ==
    /\ config = NewCircuitBreakerPolicy(CHOOSE c \in CBConfigs : TRUE)
    /\ breakers = <<>>
    /\ now = 0
    /\ pc = [p \in Procs |-> "idle"]
    /\ host = [p \in Procs |-> ""]
    /\ ret = [p \in Procs |-> NoResult]
    /\ invoked = [p \in Procs |-> 0]

Range(f) == {f[i] : i \in DOMAIN f}

\* the indices of the queues and of their workers
Workers == 0..(maxWorkers - 1)

\* the indices a pool of the model can have
WorkerIds == 0..(MaxWorkersBound - 1)

\* a caller of Submit that is not inside a call
SubIdle == [pc |-> "idle", task |-> Nil, idx |-> 0]

\* a worker and what it runs
WorkerAt(st, task) == [st |-> st, task |-> task]

\* NewPool(mw, qb): both arguments are raised to 1; every queue is empty
\* and every worker stands before its select
InitPool ==
    /\ InstrumentationOff
    /\ ContextsOff
    /\ ProbeOff
    /\ RetryOff
    /\ BulkheadOff
    /\ TimeoutOff
    /\ ChainedOff
    /\ ExecutorOff
    /\ ClientOff
    /\ MetricsOff
    /\ BackoffOff
    /\ CircuitBreakerOff
    /\ \E mw \in 0..MaxWorkersBound, qb \in 0..MaxQueueBuffer :
          /\ maxWorkers = (IF mw < 1 THEN 1 ELSE mw)
          /\ queueBuffer = (IF qb < 1 THEN 1 ELSE qb)
    /\ hash \in UidHashes
    /\ taskQueues = [w \in Workers |-> <<>>]
    /\ qclosed = [w \in Workers |-> FALSE]
    /\ sendq = [w \in Workers |-> <<>>]
    /\ poolCtx = FALSE
    /\ worker = [w \in Workers |-> WorkerAt("select", Nil)]
    /\ wg = maxWorkers
    /\ sub = [s \in Submitters |-> SubIdle]
    /\ stopPc = "idle"
    /\ ntasks = 0
    /\ sent = <<>>
    /\ started = <<>>
    /\ finished = {}

\* a Submit that hands the tasks to the queues in turn, whatever the uid
QueueIndexRoundRobin(uid) == ntasks % maxWorkers

\* the queue Submit picks: fnv1a.HashString64(uid) % uint64(p.maxWorkers)
QueueIndex(uid) == hash[uid] % maxWorkers

\* the cases of the select in Submit that can proceed: the send (into free
\* buffer space, to a parked worker, or on a closed queue, where it
\* panics) and the receive from p.ctx.Done()
SubmitReady(idx) ==
    (IF qclosed[idx] \/ Len(taskQueues[idx]) < queueBuffer
        \/ worker[idx].st = "parked"
     THEN {"send"} ELSE {})
    \cup (IF poolCtx THEN {"done"} ELSE {})

\* the cases of the select in startWorker that can proceed
WorkerReady(w) ==
    (IF taskQueues[w] # <<>> \/ qclosed[w] THEN {"recv"} ELSE {})
    \cup (IF poolCtx THEN {"done"} ELSE {})

\* what the select of startWorker may pick: any case that can proceed
WorkerChoice(w) == WorkerReady(w)

\* the task t of uid handed to Submit; late when Stop had been called
Task(id, uid, idx) == [id |-> id, uid |-> uid, idx |-> idx, late |-> stopPc # "idle"]

\* the send of task t on queue idx completes: a parked worker takes the
\* task at once and starts it, otherwise the task is buffered
SendCompletes(t, idx) ==
    /\ sent' = Append(sent, t)
    /\ IF worker[idx].st = "parked"
       THEN /\ worker' = [worker EXCEPT ![idx] = WorkerAt("running", t)]
            /\ started' = Append(started, t.id)
            /\ UNCHANGED taskQueues
       ELSE /\ taskQueues' = [taskQueues EXCEPT ![idx] = Append(@, t)]
            /\ UNCHANGED <<worker, started>>

\* Submit(uid, task) for a task that is not nil (for nil it returns at once
\* and changes nothing), up to the outcome of its select: the send completes,
\* the send hits a closed queue and panics, the context is done and the
\* task is dropped, or no case can proceed and the call parks
Submit(s, uid) ==
    /\ sub[s].pc = "idle"
    /\ ntasks < MaxTasks
    /\ ntasks' = ntasks + 1
    /\ LET idx == QueueIndex(uid)
           t == Task(ntasks + 1, uid, idx)
       IN  IF SubmitReady(idx) = {}
           THEN /\ sub' = [sub EXCEPT ![s] = [pc |-> "parked", task |-> t,
                                              idx |-> idx]]
                /\ sendq' = [sendq EXCEPT ![idx] = Append(@, s)]
                /\ UNCHANGED <<taskQueues, worker, sent, started>>
           ELSE \E c \in SubmitReady(idx) :
                   /\ UNCHANGED sendq
                   /\ IF c = "done"
                      THEN /\ sub' = [sub EXCEPT ![s] = SubIdle]
                           /\ UNCHANGED <<taskQueues, worker, sent, started>>
                      ELSE IF qclosed[idx]
                      THEN /\ sub' = [sub EXCEPT ![s] =
                                        [pc |-> "panicked", task |-> t,
                                         idx |-> idx]]
                           /\ UNCHANGED <<taskQueues, worker, sent, started>>
                      ELSE /\ sub' = [sub EXCEPT ![s] = SubIdle]
                           /\ SendCompletes(t, idx)
    /\ UNCHANGED <<maxWorkers, queueBuffer, hash, qclosed, poolCtx, wg, stopPc,
                   finished>>
    /\ UNCHANGED outsidePool

\* startWorker at its select: it receives a task and calls it, finds the
\* queue closed and returns, finds the context done and returns, or parks.
\* When it returns the deferred p.wg.Done() runs.
\* A receive from a full queue lets the oldest parked Submit complete.
WorkerSelect(w) ==
    /\ w \in Workers
    /\ worker[w].st = "select"
    /\ IF WorkerReady(w) = {}
       THEN /\ worker' = [worker EXCEPT ![w] = WorkerAt("parked", Nil)]
            /\ UNCHANGED <<taskQueues, sendq, sub, sent, started, wg>>
       ELSE \E c \in WorkerChoice(w) :
               IF c = "done" \/ taskQueues[w] = <<>>
               THEN /\ worker' = [worker EXCEPT ![w] = WorkerAt("exited", Nil)]
                    /\ wg' = wg - 1
                    /\ UNCHANGED <<taskQueues, sendq, sub, sent, started>>
               ELSE /\ worker' = [worker EXCEPT ![w] =
                                    WorkerAt("running", Head(taskQueues[w]))]
                    /\ UNCHANGED wg
                    /\ started' = Append(started, Head(taskQueues[w]).id)
                    /\ IF sendq[w] # <<>>
                       THEN LET s == Head(sendq[w])
                            IN  /\ taskQueues' = [taskQueues EXCEPT ![w] =
                                                    Append(Tail(@), sub[s].task)]
                                /\ sendq' = [sendq EXCEPT ![w] = Tail(@)]
                                /\ sent' = Append(sent, sub[s].task)
                                /\ sub' = [sub EXCEPT ![s] = SubIdle]
                       ELSE /\ taskQueues' = [taskQueues EXCEPT ![w] = Tail(@)]
                            /\ UNCHANGED <<sendq, sub, sent>>
    /\ UNCHANGED <<maxWorkers, queueBuffer, hash, qclosed, poolCtx, stopPc,
                   ntasks, finished>>
    /\ UNCHANGED outsidePool

\* task() returns: the worker goes back to its select
WorkerTaskDone(w) ==
    /\ w \in Workers
    /\ worker[w].st = "running"
    /\ finished' = finished \cup {worker[w].task.id}
    /\ worker' = [worker EXCEPT ![w] = WorkerAt("select", Nil)]
    /\ UNCHANGED <<maxWorkers, queueBuffer, hash, taskQueues, qclosed, sendq,
                   poolCtx, wg, sub, stopPc, ntasks, sent, started>>
    /\ UNCHANGED outsidePool

\* Stop: p.cancel(). Every parked select has the case of p.ctx.Done() and
\* is woken by it: parked workers return (their deferred p.wg.Done() runs),
\* parked Submit calls drop their task
StopCancel ==
    /\ stopPc = "idle"
    /\ poolCtx' = TRUE
    /\ worker' = [w \in Workers |->
                    IF worker[w].st = "parked" THEN WorkerAt("exited", Nil)
                    ELSE worker[w]]
    /\ wg' = wg - Cardinality({w \in Workers : worker[w].st = "parked"})
    /\ sub' = [s \in Submitters |->
                 IF sub[s].pc = "parked" THEN SubIdle ELSE sub[s]]
    /\ sendq' = [w \in Workers |-> <<>>]
    /\ stopPc' = "close"
    /\ UNCHANGED <<maxWorkers, queueBuffer, hash, taskQueues, qclosed,
                   ntasks, sent, started, finished>>
    /\ UNCHANGED outsidePool

\* the queues Stop has still to close, in the order of the slice
Unclosed == {w \in Workers : ~qclosed[w]}

\* Stop: close(q) of the next queue
StopClose ==
    /\ stopPc = "close"
    /\ Unclosed # {}
    /\ LET w == CHOOSE x \in Unclosed : \A y \in Unclosed : x <= y
       IN  qclosed' = [qclosed EXCEPT ![w] = TRUE]
    /\ UNCHANGED <<maxWorkers, queueBuffer, hash, taskQueues, sendq, poolCtx,
                   worker, wg, sub, stopPc, ntasks, sent, started, finished>>
    /\ UNCHANGED outsidePool

\* Stop: p.wg.Wait() returns once every worker has returned, and so does Stop
StopWait ==
    /\ stopPc = "close"
    /\ Unclosed = {}
    /\ wg = 0
    /\ stopPc' = "returned"
    /\ UNCHANGED <<maxWorkers, queueBuffer, hash, taskQueues, qclosed, sendq,
                   poolCtx, worker, wg, sub, ntasks, sent, started, finished>>
    /\ UNCHANGED outsidePool

NextPool ==
    \/ \E s \in Submitters, uid \in Uids : Submit(s, uid)
    \/ \E w \in WorkerIds : WorkerSelect(w)
    \/ \E w \in WorkerIds : WorkerTaskDone(w)
    \/ StopCancel
    \/ StopClose
    \/ StopWait

SpecPool == InitPool /\ [][NextPool]_vars

----------------------------------------------------------------------------
(* Circuit breaker claims, under SpecCB *)

\* the breaker of the host caller p is calling
BreakerOf(p) == breakers[host[p]]

\* caller p takes its canExecute step
CanExecuteStep(p) == pc[p] = "canExecute" /\ pc'[p] # "canExecute"

\* caller p's next returns and its result is recorded
RecordStep(p) == pc[p] = "next" /\ pc'[p] = "idle"

CountersZero(b) == b.failures = 0 /\ b.successes = 0 /\ b.requests = 0

\* C1 (as claimed): no reachable state has a Closed breaker whose counters
\* satisfy requests >= MinRequests and (100 * failures) / requests >=
\* ErrorThreshold, whatever the last recorded result was.
C1_TripInvariant ==
    \A h \in DOMAIN breakers :
        ~(breakers[h].state = StateClosed /\ TripCondition(breakers[h], config))

\* C2: a Closed breaker never becomes Open by a recorded result while its
\* request count, that result included, is below MinRequests.
C2_NoTripBelowMinRequests ==
    [][\A h \in DOMAIN breakers :
          (breakers[h].state = StateClosed /\ breakers'[h].state = StateOpen)
              => breakers'[h].requests >= config.MinRequests]_vars

\* C2 witness: a Closed breaker that recorded only failures, one short of
\* MinRequests
C2_Witness ==
    \E h \in DOMAIN breakers :
        /\ breakers[h].state = StateClosed
        /\ breakers[h].requests = config.MinRequests - 1
        /\ breakers[h].failures = breakers[h].requests

\* C3: while the breaker is Open and less than SleepWindow has elapsed since
\* its last transition, Execute returns an error, does not invoke next and
\* leaves the breaker's state, counters and timestamp as they were.
C3_OpenFailsFast ==
    [][\A p \in Procs :
          (/\ CanExecuteStep(p)
           /\ BreakerOf(p).state = StateOpen
           /\ now - BreakerOf(p).lastStateChange < config.SleepWindow)
              => /\ pc'[p] = "idle"
                 /\ ret'[p].resp = Nil /\ ret'[p].err # Nil
                 /\ invoked'[p] = 0
                 /\ breakers' = breakers]_vars

\* C3 witness: a call was refused without invoking next and the breaker is
\* still Open inside its sleep window
C3_Witness ==
    \E p \in Procs, h \in DOMAIN breakers :
        /\ pc[p] = "idle" /\ ret[p] = Result(Nil, CircuitOpenError)
        /\ invoked[p] = 0
        /\ breakers[h].state = StateOpen
        /\ now - breakers[h].lastStateChange < config.SleepWindow

C5_HalfOpenCloses ==
    [][/\ \A p \in Procs :
            (/\ RecordStep(p)
             /\ BreakerOf(p).state = StateHalfOpen
             /\ ~shouldTrip(ret'[p]))
                => IF BreakerOf(p).successes + 1 >= config.SuccessThreshold
                   THEN /\ breakers'[host[p]].state = StateClosed
                        /\ CountersZero(breakers'[host[p]])
                   ELSE /\ breakers'[host[p]].state = StateHalfOpen
                        /\ breakers'[host[p]].successes
                              = BreakerOf(p).successes + 1
       /\ \A h \in DOMAIN breakers :
            (breakers[h].state = StateHalfOpen
             /\ breakers'[h].state = StateClosed)
                => \E p \in Procs :
                      /\ RecordStep(p) /\ host[p] = h
                      /\ ~shouldTrip(ret'[p])
                      /\ breakers[h].successes + 1
                            >= config.SuccessThreshold]_vars

\* C5 witness: a HalfOpen breaker that recorded a success and is still short
\* of SuccessThreshold
C5_Witness ==
    \E h \in DOMAIN breakers :
        /\ breakers[h].state = StateHalfOpen
        /\ breakers[h].successes >= 1
        /\ breakers[h].successes < config.SuccessThreshold

\* C6: in HalfOpen any recorded failure opens the breaker, resets all
\* counters and sets the transition timestamp, and from then on requests
\* are refused while less than SleepWindow has elapsed.
C6_HalfOpenReopens ==
    [][\A p \in Procs :
          /\ (/\ RecordStep(p)
              /\ BreakerOf(p).state = StateHalfOpen
              /\ shouldTrip(ret'[p]))
                 => /\ breakers'[host[p]].state = StateOpen
                    /\ CountersZero(breakers'[host[p]])
                    /\ breakers'[host[p]].lastStateChange = now
          /\ (/\ CanExecuteStep(p)
              /\ BreakerOf(p).state = StateOpen
              /\ now - BreakerOf(p).lastStateChange < config.SleepWindow)
                 => pc'[p] = "idle" /\ ret'[p].err # Nil]_vars

\* C6 witness: a breaker reopened from HalfOpen at this instant (only that
\* transition leaves an Open breaker with all counters 0), while a caller
\* holds the failure it was given
C6_Witness ==
    \E p \in Procs, h \in DOMAIN breakers :
        /\ breakers[h].state = StateOpen
        /\ CountersZero(breakers[h])
        /\ breakers[h].lastStateChange = now
        /\ now > config.SleepWindow
        /\ pc[p] = "idle" /\ shouldTrip(ret[p]) /\ invoked[p] = 1

\* C7 (as claimed): the error of a short-circuited call matches the package
\* sentinel ErrCircuitOpen under errors.Is.
C7_SentinelsMatch ==
    \A p \in Procs :
        (pc[p] = "idle" /\ invoked[p] = 0 /\ ret[p].err # Nil
         /\ ret[p].err.kind # "RequestError")
            => ErrorsIs(ret[p].err, ErrCircuitOpen)

Classifications ==
    {"circuit_open", "bulkhead_full", "timeout", "max_retries", "network",
     "invalid_request"}

\* C8 (as claimed): every error Client.Do returns is a RequestError that
\* carries its cause, the request and a classification of the closed set.
C8_DoReturnsRequestError ==
    \A p \in Procs :
        (pc[p] = "idle" /\ ret[p].err # Nil)
            => /\ ret[p].err.kind = "RequestError"
               /\ Unwrap(ret[p].err) # Nil
               /\ (ret[p].err.Cause # "invalid_request"
                      => ret[p].err.Request # Nil)
               /\ ret[p].err.Cause \in Classifications

----------------------------------------------------------------------------
(* Retry policy claims, under SpecRetry *)

\* the request is not stopped by the idempotency gate
RetryEligible == ~rconfig.OnlyIdempotent \/ rreq.method \notin {"POST", "PATCH"}

\* every answer of next so far is one the predicate wants retried
AllRetriable == \A i \in 1..Len(outcomes) : shouldRetry(rconfig, outcomes[i])

\* Execute returned, and neither because the request body could not be read
\* nor because the context was cancelled during a wait
RanToTheEnd ==
    /\ rpc = "done"
    /\ rret # Result(Nil, ReadErr)
    /\ rret # Result(Nil, CtxCanceled)

\* C9: with MaxAttempts = N >= 1, a retry-eligible method and a next whose
\* every answer is retriable, a call that is not cut short (cancellation
\* during a wait, unreadable request body) invokes next exactly N times,
\* never more and never two at a time, and returns an error that wraps the
\* last attempt's error.
C9_ExactlyMaxAttempts ==
    (RetryEligible /\ rconfig.MaxAttempts >= 1)
        => /\ nextCalls <= rconfig.MaxAttempts
           /\ inflight <= 1
           /\ ((RanToTheEnd /\ AllRetriable)
                 => /\ nextCalls = rconfig.MaxAttempts
                    /\ Len(outcomes) = rconfig.MaxAttempts
                    /\ rret.err # Nil
                    /\ (outcomes[Len(outcomes)].err # Nil
                          => ErrorsIs(rret.err, outcomes[Len(outcomes)].err)))

\* C9 witness: three attempts of a GET all failed with a network error and
\* Execute returned the error that wraps it
C9_Witness ==
    /\ rpc = "done"
    /\ rreq.method = "GET"
    /\ rconfig.MaxAttempts = 3
    /\ nextCalls = 3
    /\ outcomes = <<Result(Nil, NetErr), Result(Nil, NetErr), Result(Nil, NetErr)>>
    /\ ErrorsIs(rret.err, NetErr)

\* C10: with OnlyIdempotent = true a POST or PATCH invokes next exactly once
\* and Execute returns that invocation's result as it is, whatever the
\* outcome and MaxAttempts.
C10_NonIdempotentOnce ==
    (rconfig.OnlyIdempotent /\ rreq.method \in {"POST", "PATCH"})
        => /\ nextCalls <= 1
           /\ (rpc = "done"
                 => /\ nextCalls = 1
                    /\ Len(outcomes) = 1
                    /\ rret = outcomes[1])

\* C10 witness: a PATCH under MaxAttempts = 3 got a retriable 503 and
\* Execute returned it after one invocation
C10_Witness ==
    /\ rpc = "done"
    /\ rconfig.OnlyIdempotent
    /\ rconfig.MaxAttempts = 3
    /\ rreq.method = "PATCH"
    /\ nextCalls = 1
    /\ rret = Result(Response(503), Nil)

\* C11 (as claimed): a policy built from a configuration whose
\* OnlyIdempotent field was left unset (Go's zero value, false) invokes next
\* exactly once for a POST answered with a network error, and returns that
\* error (the context is not cancelled and the body is readable).
C11_GateOnByDefault ==
    (/\ rpc = "done"
     /\ ~rconfig.OnlyIdempotent
     /\ rconfig.MaxAttempts > 1
     /\ rreq.method = "POST"
     /\ rreq.body # FailingReader
     /\ ~ctxDone
     /\ \A i \in 1..Len(outcomes) : outcomes[i] = Result(Nil, NetErr))
        => /\ nextCalls = 1
           /\ rret = Result(Nil, NetErr)

\* an outcome the default predicate wants retried: an error, or a response
\* whose status is one of the default retryable codes
WantsRetry(o) ==
    \/ o.err # Nil
    \/ (o.resp # Nil /\ o.resp.status \in {429, 500, 502, 503, 504})

\* C12: the first answer of next that the predicate does not want retried
\* ends the call: if it is the k-th answer, next has been invoked exactly k
\* times, no attempt follows, and Execute has returned that answer's
\* (response, error) as it is, with no error added.
C12_StopsAtFirstNonRetriable ==
    \A k \in 1..Len(outcomes) :
        ~WantsRetry(outcomes[k])
            => /\ k = Len(outcomes)
               /\ rpc = "done"
               /\ nextCalls = k
               /\ rret = outcomes[k]

\* C12 witness: 503, 503, 200 under MaxAttempts = 3 gave status 200 and no
\* error after three invocations
C12_Witness ==
    /\ rpc = "done"
    /\ rconfig.MaxAttempts = 3
    /\ outcomes = <<Result(Response(503), Nil), Result(Response(503), Nil),
                    Result(Response(200), Nil)>>
    /\ nextCalls = 3
    /\ rret = Result(Response(200), Nil)

\* C13: a cancellation of the context that arrives while Execute waits
\* between two attempts wakes the wait; from there Execute returns the
\* context's error and nothing else, with no further invocation of next. A
\* cancellation during the first wait therefore leaves exactly one
\* invocation.
C13_CancelDuringWait ==
    [][/\ (rpc = "wait" /\ ~ctxDone /\ ctxDone')
            => (rpc' = "cancelled" /\ nextCalls' = nextCalls)
       /\ (rpc = "cancelled" /\ rpc' # "cancelled")
            => /\ rpc' = "done"
               /\ rret' = Result(Nil, CtxCanceled)
               /\ nextCalls' = nextCalls
               /\ outcomes' = outcomes
       /\ (rpc = "wait" /\ attempt = 0) => nextCalls = 1]_vars

\* C13 witness: under MaxAttempts = 3 and a positive backoff the first
\* attempt failed, the context was cancelled and Execute returned its error
\* after that one invocation
C13_Witness ==
    /\ rpc = "done"
    /\ ctxDone
    /\ rconfig.MaxAttempts = 3
    /\ rconfig.Backoff = NewConstantBackoff(1)
    /\ outcomes = <<Result(Nil, NetErr)>>
    /\ nextCalls = 1
    /\ rret = Result(Nil, CtxCanceled)

\* C14: whatever the earlier invocations read of the body, every invocation
\* of next finds req.Body at offset 0 over exactly the bytes the caller
\* handed over (for a request that has a readable body).
C14_BodyReplay ==
    (origBody # Nil /\ origBody.kind = "reader")
        => \A i \in 1..Len(presented) :
               presented[i] = Reader(origBody.data, 0)

\* C14 witness: the third invocation of next is in progress and finds the
\* two-byte body at offset 0, after Execute and two invocations have read it
C14_Witness ==
    /\ rpc = "next"
    /\ origBody = Reader(<<1, 2>>, 0)
    /\ Len(presented) = 3
    /\ presented[3] = Reader(<<1, 2>>, 0)
    /\ rreq.body = Reader(<<1, 2>>, 0)

\* a transport failure, or a response with one of the default retryable codes
NetworkOrRetryableStatus(o) ==
    \/ o.err = NetErr
    \/ (o.err = Nil /\ o.resp # Nil
        /\ o.resp.status \in {429, 500, 502, 503, 504})

\* C15 (as claimed): only a network error or a response with status 429, 500,
\* 502, 503 or 504 is followed by another attempt; any other answer of next,
\* such as the error of an open circuit breaker further down the chain, is
\* the last one and is what Execute returns.
C15_OnlyNetworkAndStatusRetried ==
    \A k \in 1..Len(outcomes) :
        ~NetworkOrRetryableStatus(outcomes[k])
            => /\ k = Len(outcomes)
               /\ rpc = "done"
               /\ rret.resp = outcomes[k].resp
               /\ IF outcomes[k].err = Nil THEN rret.err = Nil
                  ELSE ErrorsIs(rret.err, outcomes[k].err)

\* C16 (as claimed): when an attempt follows another one, the body of the
\* earlier attempt's response has been drained and closed; and a response
\* that Execute returns, the last one of an exhausted call included, has
\* not been drained or closed by the policy.
C16_ResponseBodyOwnership ==
    /\ (nextCalls > Len(outcomes) /\ Len(outcomes) >= 1 /\ last.resp # Nil)
          => last.resp.closed
    /\ (rpc = "done" /\ rret.resp # Nil) => ~rret.resp.closed

----------------------------------------------------------------------------
(* Bulkhead claims, under SpecBH *)

\* the callers inside next whose calls share a semaphore with calls to host
\* h: those calling h per host, all of them in global mode
InsideNext(h) ==
    {p \in BHProcs : bpc[p] = "next" /\ (bconfig.PerHost => bhost[p] = h)}

\* caller p takes the select of Execute
AcquireStep(p) == bpc[p] = "acquire" /\ bpc'[p] # "acquire"

\* C17: with MaxConcurrent = K, never more than K callers that share a
\* semaphore are inside next at once, under every interleaving; and a caller
\* that reaches the select while K of them are inside next does not enter
\* next.
C17_BulkheadBound ==
    [][/\ \A h \in BHHosts :
            Cardinality(InsideNext(h)) <= bconfig.MaxConcurrent
       /\ \A p \in BHProcs :
            (AcquireStep(p)
             /\ Cardinality(InsideNext(bhost[p])) = bconfig.MaxConcurrent)
                => (bpc'[p] = "idle" /\ InsideNext(bhost[p])' = InsideNext(bhost[p]))
      ]_vars

\* C17 witness: under MaxConcurrent = 2 two callers are inside next for host
\* a and the third one's call to host a has been rejected
C17_Witness ==
    /\ bconfig.MaxConcurrent = 2
    /\ bpc["q1"] = "next" /\ bhost["q1"] = "a"
    /\ bpc["q2"] = "next" /\ bhost["q2"] = "a"
    /\ bpc["q3"] = "idle" /\ bhost["q3"] = "a"
    /\ bret["q3"] = Result(Nil, BulkheadFullError)
    /\ binvoked["q3"] = 0

\* C18: the tokens held in a semaphore are exactly the admitted calls in
\* flight on it, whichever way next ended before (return, error, panic) and
\* however many calls were rejected: none in flight means no token held, and
\* a caller that reaches the select while fewer than MaxConcurrent are in
\* flight is admitted.
C18_TokenConservation ==
    [][/\ \A h \in BHHosts : ActiveRequests(h) = Cardinality(InsideNext(h))
       /\ \A p \in BHProcs :
            (AcquireStep(p)
             /\ Cardinality(InsideNext(bhost[p])) < bconfig.MaxConcurrent)
                => bpc'[p] = "next"
      ]_vars

\* C18 witness: under MaxConcurrent = 1 one call to host a ended in a panic
\* of next, another was rejected, and a later call to host a is inside next
\* holding the only token
C18_Witness ==
    /\ bconfig.MaxConcurrent = 1
    /\ bret["q1"] = Panicked /\ bpc["q1"] = "idle" /\ bhost["q1"] = "a"
    /\ bret["q2"] = Result(Nil, BulkheadFullError) /\ bpc["q2"] = "idle"
    /\ bpc["q3"] = "next" /\ bhost["q3"] = "a"
    /\ ActiveRequests("a") = 1

\* C19: a caller that reaches the select while the semaphore is full gets
\* the rejection error from that very step: next is not invoked, no token
\* moves, the caller is never left waiting at the select, and the call,
\* being over, is not admitted afterwards.
C19_RejectsImmediately ==
    [][\A p \in BHProcs :
         /\ (AcquireStep(p) /\ ActiveRequests(bhost[p]) >= bconfig.MaxConcurrent)
               => /\ bpc'[p] = "idle"
                  /\ bret'[p] = Result(Nil, BulkheadFullError)
                  /\ binvoked'[p] = 0
                  /\ \A h \in BHHosts : ActiveRequests(h)' = ActiveRequests(h)
         /\ bpc[p] = "acquire" => ENABLED BHAcquire(p)
         /\ (bpc[p] = "idle" /\ bret[p] = Result(Nil, BulkheadFullError))
               => binvoked[p] = 0
      ]_vars

\* C19 witness: under MaxConcurrent = 1 and per-host semaphores a call to
\* host a was rejected while the only token of host a is held by a call
\* inside next
C19_Witness ==
    /\ bconfig.MaxConcurrent = 1
    /\ bconfig.PerHost
    /\ bpc["q1"] = "next" /\ bhost["q1"] = "a"
    /\ ActiveRequests("a") = 1
    /\ bpc["q2"] = "idle" /\ bhost["q2"] = "a"
    /\ bret["q2"] = Result(Nil, BulkheadFullError)
    /\ binvoked["q2"] = 0

\* the callers inside next for host h
InsideNextFor(h) == {p \in BHProcs : bpc[p] = "next" /\ bhost[p] = h}

\* C20 (as claimed): under a configuration whose PerHost field was left
\* unset (Go's zero value, false) calls in flight to one host never make a
\* call to another host rejected: a caller that reaches the select while
\* fewer than MaxConcurrent calls to its own host are inside next is
\* admitted.
C20_PerHostByDefault ==
    [][~bconfig.PerHost
         => \A p \in BHProcs :
              (AcquireStep(p)
               /\ Cardinality(InsideNextFor(bhost[p])) < bconfig.MaxConcurrent)
                  => bpc'[p] = "next"
      ]_vars

----------------------------------------------------------------------------
(* Timeout policy claims, under SpecTO *)

\* the earlier of the parent's deadline and of start + d
EarlierDeadline(parent, start, d) ==
    IF parent = NoDeadline THEN Deadline(start + d)
    ELSE IF parent.at <= start + d THEN parent ELSE Deadline(start + d)

\* an error that indicates the expiry of a deadline
IndicatesExpiry(err) ==
    err = DeadlineExceeded \/ err = UrlError(DeadlineExceeded)

----------------------------------------------------------------------------
(* Claim about the timeout and the retry policy in one chain, under SpecTR *)

\* C22 (as claimed): with the timeout policy outside the retry policy, once
\* the one deadline has expired a wait between attempts does not end in a
\* further attempt, and the call returns the timeout error; with the timeout
\* policy inside, every attempt enters it and gets a deadline of now +
\* Request of its own.
C22_TimeoutRetryComposition ==
    [][/\ (order = "outside" /\ ctxDone /\ rpc \in {"select", "wait"})
             => rpc' # "elapsed"
       /\ (order = "outside" /\ ctxDone /\ tpc' = "done")
             => tret' = Result(Nil, TimeoutError)
       /\ (order = "inside" /\ entered' = entered + 1)
             => tctx' = Deadline(tnow + tconfig.Request)
       /\ (order = "inside" /\ rpc = "done") => entered = nextCalls
      ]_vars

----------------------------------------------------------------------------
(* Claim about Chain, under SpecChain *)

\* what the call has entered is the transport (index Len(policies) + 1)
Transport == Len(policies) + 1

\* C23: one call of the composed executor enters the first policy first
\* (the transport if the list is empty); a policy after the first, or the
\* transport, is entered only by the call of next of the policy just before
\* it in the list, which is then the innermost Execute in progress; when a
\* policy never calls next, nothing after it in the list and not the
\* transport is entered; when every policy calls next exactly once, the
\* finished call has entered each policy and then the transport exactly
\* once, in list order.
C23_ChainOrder ==
    [][/\ (trace = <<>> /\ trace' # <<>>) => trace' = <<1>>
       /\ (trace # <<>> /\ trace' # trace)
             => /\ stack # <<>>
                /\ LET top == stack[Len(stack)]
                   IN /\ trace' = Append(trace, top.policy.index + 1)
                      /\ top.left > 0
                      /\ stack'[Len(stack)] = [top EXCEPT !.left = @ - 1]
       /\ \A i \in 1..Len(policies) :
             policies[i].calls = 0
                => \A k \in 1..Len(trace') : trace'[k] <= i
       /\ ((\A i \in 1..Len(policies) : policies[i].calls = 1) /\ cpc' = "done")
             => trace' = [k \in 1..Transport |-> k]
      ]_vars

\* C23 witness: a call through three policies that each call next once has
\* returned after entering them and the transport in order
C23_Witness ==
    /\ cpc = "done"
    /\ Len(policies) = 3
    /\ \A i \in 1..Len(policies) : policies[i].calls = 1
    /\ trace = <<1, 2, 3, 4>>

----------------------------------------------------------------------------
(* Claim about per-call overrides, under SpecClient *)

\* C24 (as claimed): a request that carries WithoutCircuitBreaker is
\* executed without the circuit breaker's effect: once it has reached the
\* admission check it goes on to the transport, whatever the state of its
\* host's breaker.
C24_OverridesHonoured ==
    [][\A p \in DoProcs :
          (/\ pc[p] = "canExecute"
           /\ applyOptions(options[p]).disableCircuitBreaker
           /\ pc'[p] # "canExecute")
             => pc'[p] = "next"]_vars

----------------------------------------------------------------------------
(* Claims about the breakers of several hosts, under SpecHosts *)

\* the host with an explicit default port of the scheme stripped
StripDefaultPort(h) == IF h = "h:80" THEN "h" ELSE h

\* C25 (as claimed): requests to hosts that differ only by an explicit
\* default port use one circuit-breaker record: every record is kept under
\* the host without the default port, and the state reported for a host is
\* the state reported for that host without the default port.
C25_NormalizedHostKey ==
    /\ \A k \in DOMAIN breakers : k = StripDefaultPort(k)
    /\ \A h \in UrlHosts : State(h) = State(StripDefaultPort(h))

\* C26: the breaker map starts empty; a record for a host appears only in
\* getBreakerForHost of a request to that host, and no record is ever
\* removed; a step of a request to host A (admission check or recording of
\* a result) leaves the record of every other host as it was; a request to
\* B whose breaker is Closed is admitted whatever the state of A.
C26_PerHostIsolation ==
    [][/\ \A h \in DOMAIN breakers : h \in DOMAIN breakers'
       /\ \A h \in DOMAIN breakers' \ DOMAIN breakers :
             \E p \in DoProcs : pc[p] = "getBreaker" /\ host[p] = h
       /\ \A p \in DoProcs :
             (pc[p] \in {"getBreaker", "canExecute", "next"} /\ pc'[p] # pc[p])
                => \A b \in DOMAIN breakers \ {host[p]} :
                      breakers'[b] = breakers[b]
       /\ \A p \in DoProcs :
             (/\ pc[p] = "canExecute"
              /\ pc'[p] # "canExecute"
              /\ breakers[host[p]].state = StateClosed)
                => pc'[p] = "next"
      ]_vars

\* C26 witness: while the breaker of "h" is Open a request to "h:80" has
\* been admitted and is at the transport, and the record of "h:80" is
\* untouched by the failures of "h"
C26_Witness ==
    /\ "h" \in DOMAIN breakers
    /\ breakers["h"].state = StateOpen
    /\ \E p \in DoProcs : pc[p] = "next" /\ host[p] = "h:80"
    /\ breakers["h:80"].state = StateClosed
    /\ breakers["h:80"].failures = 0

----------------------------------------------------------------------------
(* Claim about CircuitBreakerPolicy.State, under SpecState *)

----------------------------------------------------------------------------
(* Claim about the metrics policy, under SpecMetrics *)

\* the calls for host label h that are inside MetricsPolicy.Execute
InsideMetrics(h) == {p \in MetricsCallers : mpc[p] # "idle" /\ mhost[p] = h}

\* C28: at every moment the gauge active_requests{host} equals the number
\* of calls for that host inside MetricsPolicy.Execute and is not negative;
\* entering Execute adds one and leaving it, by return, error or panic,
\* takes one away; what Execute hands back is what next handed to it.
C28_GaugeBalance ==
    [][/\ \A h \in UrlHosts :
             /\ activeRequests[h] = Cardinality(InsideMetrics(h))
             /\ activeRequests[h] >= 0
       /\ \A p \in MetricsCallers :
             /\ (mpc[p] = "idle" /\ mpc'[p] # "idle")
                   => activeRequests'[mhost'[p]] = activeRequests[mhost'[p]] + 1
             /\ (mpc[p] # "idle" /\ mpc'[p] = "idle")
                   => /\ activeRequests'[mhost[p]] = activeRequests[mhost[p]] - 1
                      /\ mret'[p] = mout[p]
      ]_vars

\* C28 witness: a call whose next panicked has left Execute while another
\* call for the same host is still inside; the gauge stands at one
C28_Witness ==
    /\ mpc["m1"] = "idle"
    /\ mret["m1"] = Panicked
    /\ mpc["m2"] = "next"
    /\ mhost["m2"] = "h"
    /\ mhost["m1"] = "h"
    /\ activeRequests["h"] = 1

----------------------------------------------------------------------------
(* Claim about the retry attempt counter, under SpecRetryMetrics *)

\* C29 (as claimed): the retry attempt counter goes up by one with every
\* re-attempt, under the reason of the outcome that caused it: a call under
\* MaxAttempts = 3 whose transport answered 503, 503, 200 has raised the
\* counter of reason "5xx" from zero to two, and a call that made one
\* attempt has left the counters at zero.
C29_RetryCounter ==
    /\ (/\ rpc = "done"
        /\ rconfig.MaxAttempts = 3
        /\ outcomes = <<Result(Response(503), Nil), Result(Response(503), Nil),
                        Result(Response(200), Nil)>>)
          => retryAttempts["5xx"] = 2
    /\ (rpc = "done" /\ nextCalls <= 1)
          => \A r \in RetryReasons : retryAttempts[r] = 0

----------------------------------------------------------------------------
(* Claim about the backoff strategies, under SpecBackoff *)

\* C30 (as claimed): whatever the strategy and the retry index, Next returns
\* a duration that is not negative, also where the product exceeds the
\* range of the int64; the exponential strategy with Max > 0 returns no
\* more than Max.
C30_BackoffNonNegative ==
    delayOut # Nil
        => /\ delayOut.delay >= 0
           /\ (strategy.kind = "ExponentialBackoff" /\ strategy.Max > 0)
                 => delayOut.delay <= strategy.Max

\* initial * factor^n with factor 2 when unset, as far as the int64 range
\* reaches (TwoTo63 from there on), capped at Max when Max > 0
RawDelay(e, n) ==
    LET raw == FloatPowTimes(e.Initial, IF e.Factor = 0 THEN 2 ELSE e.Factor, n)
    IN  IF e.Max > 0 /\ raw > e.Max THEN e.Max ELSE raw

\* C31 (as claimed): for every retry index n the constant strategy returns
\* its interval, the linear strategy step * (n + 1), the exponential
\* strategy without jitter min(initial * factor^n, max), one value only, and
\* with jitter a value from 0 to min(initial * factor^n, max).
C31_BackoffFormulas ==
    delayOut # Nil
        => /\ strategy.kind = "ConstantBackoff"
                 => delayOut.delay = strategy.Interval
           /\ strategy.kind = "LinearBackoff"
                 => delayOut.delay = strategy.Interval * (retryIndex + 1)
           /\ (strategy.kind = "ExponentialBackoff" /\ ~strategy.Jitter)
                 => /\ delayOut.delay = RawDelay(strategy, retryIndex)
                    /\ Cardinality(StrategyNext(strategy, retryIndex, platform)) = 1
           /\ (strategy.kind = "ExponentialBackoff" /\ strategy.Jitter)
                 => /\ 0 <= delayOut.delay
                    /\ delayOut.delay <= RawDelay(strategy, retryIndex)

----------------------------------------------------------------------------
(* Claims about the worker pool, under SpecPool *)

\* C32 (as claimed): when Stop has returned, every task whose send
\* completed before Stop was called has finished executing.
C32_GracefulShutdown ==
    stopPc = "returned"
        => \A i \in 1..Len(sent) : ~sent[i].late => sent[i].id \in finished

\* C33 (as claimed): a Submit called after Stop was called does not panic,
\* does not park, and its task is never executed.
C33_SubmitAfterStop ==
    /\ \A s \in Submitters :
          (sub[s].pc # "idle" /\ sub[s].task.late) => FALSE
    /\ \A i \in 1..Len(sent) : sent[i].late => sent[i].id \notin Range(started)

\* the tasks of sequence q that went to queue w, in order
RECURSIVE OfQueue(_, _)
OfQueue(q, w) ==
    IF q = <<>> THEN <<>>
    ELSE IF Head(q).idx = w THEN <<Head(q).id>> \o OfQueue(Tail(q), w)
    ELSE OfQueue(Tail(q), w)

\* the task of id
TaskOf(id) == CHOOSE t \in Range(sent) : t.id = id

RECURSIVE StartedOfQueue(_, _)
StartedOfQueue(q, w) ==
    IF q = <<>> THEN <<>>
    ELSE IF TaskOf(Head(q)).idx = w THEN <<Head(q)>> \o StartedOfQueue(Tail(q), w)
    ELSE StartedOfQueue(Tail(q), w)

IsPrefix(a, b) == Len(a) <= Len(b) /\ a = SubSeq(b, 1, Len(a))

\* C40: tasks of one uid go to one queue; the tasks of a queue start in
\* the order in which their sends completed; a task starts only when every
\* task of its queue that started before it has finished, so tasks of one
\* uid never run at the same time.
C40_ShardingOrder ==
    /\ \A i, j \in 1..Len(sent) : sent[i].uid = sent[j].uid => sent[i].idx = sent[j].idx
    /\ \A w \in Workers : IsPrefix(StartedOfQueue(started, w), OfQueue(sent, w))
    /\ \A i, j \in 1..Len(started) :
          (i < j /\ TaskOf(started[i]).uid = TaskOf(started[j]).uid)
             => started[i] \in finished

\* C40 witness: two tasks of one uid have both run, in the order of their
\* sends, on a pool of two workers
C40_Witness ==
    /\ maxWorkers = 2
    /\ Len(sent) = 2
    /\ sent[1].uid = sent[2].uid
    /\ started = <<sent[1].id, sent[2].id>>
    /\ finished = {1, 2}

----------------------------------------------------------------------------
(* Claim about the schedule of the waits, under SpecRetry *)

\* C34: Backoff.Next is called once per wait, with the number of the
\* attempt that just failed: the waits so far carry the arguments 0, 1, 2,
\* ... in order; while Execute is at a wait, as many waits as attempts have
\* begun; a call that ended on an outcome that is not retried made one
\* wait fewer than attempts; no wait follows the MaxAttempts-th attempt.
C34_BackoffSchedule ==
    /\ waits = [i \in 1..Len(waits) |-> i - 1]
    /\ rpc \in {"select", "wait", "elapsed", "cancelled"}
          => (Len(waits) = nextCalls /\ attempt = nextCalls - 1)
    /\ (rpc = "done" /\ outcomes # <<>>
          /\ ~shouldRetry(rconfig, outcomes[Len(outcomes)]))
          => Len(waits) = Len(outcomes) - 1
    /\ (rconfig.MaxAttempts >= 1 /\ nextCalls >= rconfig.MaxAttempts
          /\ rpc # "idle")
          => Len(waits) = rconfig.MaxAttempts - 1

\* C34 witness: under MaxAttempts = 3 a call made three attempts and two
\* waits, for the retries 0 and 1, and ended on a response that is not
\* retried
C34_Witness ==
    /\ rpc = "done"
    /\ rconfig.MaxAttempts = 3
    /\ nextCalls = 3
    /\ waits = <<0, 1>>
    /\ outcomes[3] = Result(Response(200), Nil)

----------------------------------------------------------------------------
(* Claims about the counters of a host record, under SpecCB *)

\* C35: in every reachable state of a host record the counters are not
\* negative and failures + successes = requests; and while the record is
\* HalfOpen (SuccessThreshold >= 1) it has no failure and fewer successes
\* than SuccessThreshold.
C35_Accounting ==
    \A h \in DOMAIN breakers :
        LET b == breakers[h]
        IN  /\ b.failures >= 0
            /\ b.successes >= 0
            /\ b.failures + b.successes = b.requests
            /\ (b.state = StateHalfOpen /\ config.SuccessThreshold >= 1)
                  => (b.failures = 0 /\ b.successes < config.SuccessThreshold)

\* C35 witness: a HalfOpen record that has counted one success while a
\* second call to the same host is still inside next
C35_Witness ==
    \E h \in DOMAIN breakers :
        /\ breakers[h].state = StateHalfOpen
        /\ breakers[h].successes = 1
        /\ breakers[h].requests = 1
        /\ \E p \in Procs : pc[p] = "next" /\ host[p] = h

----------------------------------------------------------------------------
(* Claim about the probes of a HalfOpen record, under SpecProbe: the circuit
   breaker of SpecCB with the history of each admission *)

\* the calls in progress on the host of p's call, p excepted
OthersOnHost(p) == {q \in Procs \ {p} : pc[q] # "idle" /\ host[q] = host[p]}

\* canExecute of p's call took the record from Open to HalfOpen
OpensHalf(p) ==
    /\ breakers[host[p]].state = StateOpen
    /\ breakers'[host[p]].state = StateHalfOpen

\* Execute: breaker.canExecute(), with the history of the admission
ProbeCanExecute(p) ==
    /\ CanExecuteCall(p)
    /\ probe' = [q \in Procs |->
                   IF q = p THEN pc'[p] = "next"
                   ELSE IF q \in OthersOnHost(p) /\ OpensHalf(p) THEN FALSE
                   ELSE probe[q]]
    /\ UNCHANGED outsideProbe

NextProbe ==
    \/ \E p \in Procs, h \in Hosts : ClientDo(p, h)
    \/ \E p \in Procs : getBreakerForHost(p)
    \/ \E p \in Procs : ProbeCanExecute(p)
    \/ \E p \in Procs, o \in CBOutcomes : NextReturns(p, o)
    \/ Tick

SpecProbe == InitCB /\ [][NextProbe]_vars

\* the result of p's call is recorded in this step while the record is
\* HalfOpen, and it re-opens the circuit, closes it or counts as a success
\* toward closing it
DecidesHalfOpen(p) ==
    /\ pc[p] = "next"
    /\ pc'[p] = "idle"
    /\ breakers[host[p]].state = StateHalfOpen
    /\ \/ breakers'[host[p]].state # StateHalfOpen
       \/ breakers'[host[p]].successes # breakers[host[p]].successes

\* C36: while a record is HalfOpen, only the result of a call admitted
\* after the most recent Open -> HalfOpen transition re-opens the circuit
\* or counts toward closing it; the late result of a call admitted before
\* the circuit opened does neither.
C36_OnlyProbesDecide ==
    [][\A p \in Procs : DecidesHalfOpen(p) => probe[p]]_vars

----------------------------------------------------------------------------
(* Claim about the context of a response that passed the timeout policy,
   under SpecContexts: the timeout policy of SpecTO in front of
   DefaultTransport, with the cancel function of the derived context *)

\* DefaultTransport.Do: req.WithContext(ctx), the response of client.Do
\* (and the stream of its body) belongs to a request that carries ctx
DefaultTransportDo(ctx, o) == IF o.resp # Nil THEN ctx ELSE "none"

\* the deferred cancel() of Execute
DeferredCancel(ctx) == cancelled \cup {ctx}

\* Execute up to its invocation of next: a fresh timeoutCtx and its cancel
ContextsExecute ==
    /\ TimeoutEnter
    /\ cancelled' = {}
    /\ bodyCtx' = "none"
    /\ UNCHANGED outsideContexts

\* the transport returns o for the request bound to timeoutCtx, Execute
\* returns and its deferred cancel runs
ContextsNextReturns(o) ==
    /\ TimeoutLeave(o)
    /\ bodyCtx' = DefaultTransportDo("timeoutCtx", o)
    /\ cancelled' = DeferredCancel("timeoutCtx")
    /\ UNCHANGED outsideContexts

NextContexts ==
    \/ ContextsExecute
    \/ \E o \in TimeoutOutcomes : ContextsNextReturns(o)
    \/ TickTO

SpecContexts == InitTO /\ [][NextContexts]_vars

\* C37: when next returned a response with no error before the deadline of
\* the derived context and Execute has handed it to the caller, the context
\* that governs the response and the stream of its body has not been
\* cancelled by the policy.
C37_ResponseUsable ==
    (/\ tpc = "done"
     /\ tout.resp # Nil /\ tout.err = Nil
     /\ tret.resp # Nil /\ tret.err = Nil
     /\ tnow < tctx.at)
        => bodyCtx \notin cancelled

----------------------------------------------------------------------------
(* Claim about the first attempt, under SpecRetry *)

\* the error of Execute mentions the exhaustion of the attempts
MentionsExhaustion(err) ==
    ErrorsIs(err, ErrorsNew("policy.RetryPolicy.Execute",
                            "max retry attempts exceeded"))

\* C38: for every configured MaxAttempts, the negative ones included, a
\* call of Execute that is eligible for retries (its method passes the
\* OnlyIdempotent filter and its body could be read) has invoked next at
\* least once when it returns, and an error that mentions the exhaustion of
\* the attempts is returned only after at least one attempt.
C38_AtLeastOneAttempt ==
    (/\ rpc = "done"
     /\ ~(rconfig.OnlyIdempotent /\ ~isIdempotent(rreq.method))
     /\ rret.err # ReadErr)
        => /\ nextCalls >= 1
           /\ MentionsExhaustion(rret.err) => outcomes # <<>>

----------------------------------------------------------------------------
(* Tracing policy: InstrumentationPolicy of package policy and
   observability.OTELInstrumenter *)

InstrCallers == {"i1", "i2", "i3"}

\* what next can answer to the tracing policy
InstrOutcomes ==
    {Result(Response(200), Nil), Result(Response(404), Nil),
     Result(Response(503), Nil), Result(Nil, NetErr), NoResult}

\* the span tracer.Start returns: no status, no status code attribute, and
\* the calls of End it has received, each with the status set at that time
NewSpan == [status |-> "Unset", code |-> Nil, ends |-> <<>>]

\* OTELInstrumenter.StartSpan: one span from tracer.Start
StartSpan == <<NewSpan>>

\* span.End()
SpanEnd(s) == [s EXCEPT !.ends = Append(@, s.status)]

\* the status EndSpan sets for a response
StatusOfCode(status) == IF status >= 400 THEN "Error" ELSE "Ok"

\* OTELInstrumenter.EndSpan: records the error or the status code, sets the
\* status of the span and ends it
EndSpan(s, r) ==
    SpanEnd(IF r.err # Nil THEN [s EXCEPT !.status = "Error"]
            ELSE IF r.resp # Nil
            THEN [s EXCEPT !.code = r.resp.status,
                           !.status = StatusOfCode(r.resp.status)]
            ELSE s)

\* the deferred span.End() of Execute
DeferredSpanEnd(s) == SpanEnd(s)

InitInstrumentation ==
    /\ CircuitBreakerOff
    /\ RetryOff
    /\ BulkheadOff
    /\ TimeoutOff
    /\ ChainedOff
    /\ ExecutorOff
    /\ ClientOff
    /\ MetricsOff
    /\ BackoffOff
    /\ PoolOff
    /\ ProbeOff
    /\ ContextsOff
    /\ ipc = [p \in InstrCallers |-> "idle"]
    /\ spans = [p \in InstrCallers |-> <<>>]
    /\ iout = [p \in InstrCallers |-> NoResult]
    /\ iret = [p \in InstrCallers |-> NoResult]

\* Execute up to its invocation of next: the span is started
InstrumentationExecute(p) ==
    /\ ipc[p] # "next"
    /\ spans' = [spans EXCEPT ![p] = StartSpan]
    /\ ipc' = [ipc EXCEPT ![p] = "next"]
    /\ iout' = [iout EXCEPT ![p] = NoResult]
    /\ iret' = [iret EXCEPT ![p] = NoResult]
    /\ UNCHANGED outsideInstrumentation

\* next returns o: EndSpan, return resp, err, and the deferred span.End()
InstrumentationNextReturns(p, o) ==
    /\ ipc[p] = "next"
    /\ spans' = [spans EXCEPT ![p][1] = DeferredSpanEnd(EndSpan(@, o))]
    /\ iout' = [iout EXCEPT ![p] = o]
    /\ iret' = [iret EXCEPT ![p] = o]
    /\ ipc' = [ipc EXCEPT ![p] = "done"]
    /\ UNCHANGED outsideInstrumentation

\* next panics: Execute is left by the panic, the deferred span.End() runs
InstrumentationNextPanics(p) ==
    /\ ipc[p] = "next"
    /\ spans' = [spans EXCEPT ![p][1] = DeferredSpanEnd(@)]
    /\ ipc' = [ipc EXCEPT ![p] = "panicked"]
    /\ UNCHANGED <<iout, iret>>
    /\ UNCHANGED outsideInstrumentation

NextInstrumentation ==
    \/ \E p \in InstrCallers : InstrumentationExecute(p)
    \/ \E p \in InstrCallers, o \in InstrOutcomes :
           InstrumentationNextReturns(p, o)
    \/ \E p \in InstrCallers : InstrumentationNextPanics(p)

SpecInstrumentation == InitInstrumentation /\ [][NextInstrumentation]_vars

\* C39: a call that has left Execute, by a response, an error or a panic,
\* has started exactly one span and ended it exactly once; on a return the
\* status or the error of what next returned was recorded before that end,
\* and Execute returned exactly what next returned.
C39_SpanLifecycle ==
    \A p \in InstrCallers :
        ipc[p] \in {"done", "panicked"} =>
            /\ Len(spans[p]) = 1
            /\ Len(spans[p][1].ends) = 1
            /\ (ipc[p] = "done" /\ iout[p] # NoResult)
                  => spans[p][1].ends[1] # "Unset"
            /\ ipc[p] = "done" => iret[p] = iout[p]

====
